---- MODULE Spec2Model ----
(***************************************************************************)
(* Model of the paper-trading engine GammaStrangleStrategy                 *)
(* (backend/core/strategy.py) with its collaborators: the trade store      *)
(* (backend/data/database.py), the market-data gateway                     *)
(* (backend/data/fyers_client.py) and the notifier.                        *)
(*                                                                         *)
(* Threads call the engine's public operations; every operation is cut     *)
(* into the steps between which another thread can observe or change the   *)
(* shared state (the engine takes self._lock only around the blocks the    *)
(* source puts under "with self._lock").                                   *)
(*                                                                         *)
(* Numbers.  Prices are integers in paise, spot and strikes in index       *)
(* points, deltas in percent, thresholds in per-mille / percent, time in   *)
(* minutes.  The normal distribution function of the Black-Scholes         *)
(* formulas is replaced by a clamped linear ramp (see black_scholes_delta  *)
(* and TheoPrice); everything else is computed as the source computes it.  *)
(***************************************************************************)
EXTENDS Integers, Sequences, FiniteSets, TLC

(* ------------------------------------------------------------------ *)
(* Bounds of the model                                                 *)
(* ------------------------------------------------------------------ *)
MaxTrades == 1          \* trade rows ever inserted into the store (Spec)
MaxCmdTrades == 2       \* trade rows ever inserted into the store (SpecCmd)
MaxDayTrades == 3       \* trade rows ever inserted into the store (SpecDay)
MaxUpdates == 3         \* updates the Telegram listener receives (SpecTg)
MaxAdj == 2             \* a monitor tick starts only below this many AdjustmentRecords
MaxTicks == 2           \* ticks of the clock
MinutesPerTick == 720   \* minutes the clock advances per tick
ClockStart == 600       \* the minute the engine is constructed at (10:00 of day 0)

(* ------------------------------------------------------------------ *)
(* Program constants                                                   *)
(* ------------------------------------------------------------------ *)
NIFTY_LOT_SIZE == 65
STRIKE_STEP == 50
MAX_TRADES_PER_DAY == 2
CE_DELTA_TARGET == 22          \* percent
PE_DELTA_TARGET == 22          \* percent, abs(PE_DELTA_TARGET)
HEDGE_DELTA_TARGET == 10       \* percent
ROLL_DELTA_TARGET == 20        \* percent, the 0.20 of _roll_leg
GAMMA_L1_SPOT_MOVE == 6        \* per-mille (0.6%)
GAMMA_L1_PREMIUM_PCT == 40     \* percent
GAMMA_L2_DELTA_LIMIT == 35     \* percent of delta
GAMMA_L3_SPOT_MOVE == 12       \* per-mille (1.2%)
GAMMA_L3_TIME_WINDOW == 45     \* minutes
EXPIRY_OTM_OFFSET == 100
EXPIRY_HEDGE_OFFSET == 150
EXPIRY_TARGET_PCT == 40        \* percent of the premium
EXPIRY_STOP_MULT == 2
LADDER_HALF_WIDTH == 1500
MIN_LTP == 5                   \* paise, the 0.05 floor of _get_simulated_ltp
Capital == 500000              \* rupees
RiskPct == 2
NumLots == 1
SESSION_START == 560           \* 09:20 as minute of the day
SESSION_STOP == 885            \* 14:45
EXPIRY_CUTOFF == 585           \* 09:45

(* ------------------------------------------------------------------ *)
(* Input sets                                                          *)
(* ------------------------------------------------------------------ *)
Threads == {"sched", "sched2", "cron", "cmd1", "cmd2"}
SpotValues == {22000, 22300}
NoSpot == 0                      \* get_spot_price() returned None
QuoteScn == {"none", "live"}     \* what get_option_ltp returns: None, or a live quote
TrendValues == {"UNKNOWN", "BULLISH"}
StrategyTypes == {"GAMMA_STRANGLE", "EXPIRY"}
Free == "free"

VARIABLES
    is_running,         \* self.is_running
    lock,               \* self._lock: Free or the thread that holds it
    active_positions,   \* self.active_positions: trade id -> sequence of legs
    entry_spot,         \* self.entry_spot
    entry_time,         \* self.entry_time (minutes)
    adjustment_counts,  \* self.adjustment_counts
    trade_premium,      \* self.trade_premium
    spot,               \* self.spot
    supertrend_dir,     \* self.supertrend_dir
    trade_date,         \* self._trade_date (day index)
    trades_today,       \* self._trades_today
    daily_pnl,          \* self._daily_pnl
    trades,             \* the store's trades table: id -> row
    adjustments,        \* the store's adjustments table (append-only)
    alerts,             \* notifications sent: set of <<kind, trade id>>
    now,                \* the clock, minutes
    pc,                 \* per thread: the step it is at
    loc,                \* per thread: the locals of the running call
    closed_mtm,         \* history: sum, since the last reset, of the MTM with which
                        \* each structure was closed the first time
    daily_summary,      \* the store's daily_summary table: sequence of rows
    tg,                 \* the Telegram listener: _offset, callbacks run, messages sent
    order_requests,     \* requests issued to the broker's order endpoints
    probe,              \* the call of a library function under study: its
                        \* arguments and the value it returned
    last_tick,          \* history, where it is kept: seen, trade id -> what the
                        \* last monitor tick that handled the structure saw and
                        \* left; no_spot, the operations that found no spot price
    state               \* server.py's state: the engine in state.strategy and the
                        \* engine the callbacks of state.scheduler are bound to

engine == <<is_running, lock, active_positions, entry_spot, entry_time,
            adjustment_counts, trade_premium, spot, supertrend_dir,
            trade_date, trades_today, daily_pnl>>
store == <<trades, adjustments>>
outside == <<daily_summary, tg, order_requests, probe, last_tick, state>>
vars == <<is_running, lock, active_positions, entry_spot, entry_time,
          adjustment_counts, trade_premium, spot, supertrend_dir,
          trade_date, trades_today, daily_pnl, trades, adjustments, alerts,
          now, pc, loc, closed_mtm, outside>>

(* ------------------------------------------------------------------ *)
(* Helpers on numbers, maps and sequences                              *)
(* ------------------------------------------------------------------ *)
Abs(x) == IF x < 0 THEN -x ELSE x
Max(a, b) == IF a >= b THEN a ELSE b
Min(a, b) == IF a <= b THEN a ELSE b
MinOf(S) == CHOOSE x \in S : \A y \in S : x <= y

\* dict.pop(k, None)
Pop(f, k) == [x \in DOMAIN f \ {k} |-> f[x]]
\* dict[k] = v
Put(f, k, v) == [x \in DOMAIN f \cup {k} |-> IF x = k THEN v ELSE f[x]]
EmptyMap == [x \in {} |-> 0]

RECURSIVE SumSeq(_)
SumSeq(s) == IF s = <<>> THEN 0 ELSE Head(s) + SumSeq(Tail(s))

\* list.remove(the i-th element)
RemoveAt(s, i) == [j \in 1..(Len(s) - 1) |-> IF j < i THEN s[j] ELSE s[j + 1]]

\* date.today() as a day index, and datetime.now(IST).time() as minute of the day
Today == now \div 1440
TimeOfDay == now % 1440

(* ------------------------------------------------------------------ *)
(* Gateway helpers and pricing                                         *)
(* ------------------------------------------------------------------ *)
\* int(round(price / step) * step), Python's round-half-to-even
round_to_strike(price) ==
    LET q == price \div STRIKE_STEP
        r == price % STRIKE_STEP
        up == IF 2 * r > STRIKE_STEP THEN TRUE
              ELSE IF 2 * r < STRIKE_STEP THEN FALSE
              ELSE q % 2 = 1
    IN  (IF up THEN q + 1 ELSE q) * STRIKE_STEP

\* delta of black_scholes_greeks in percent: norm.cdf(d1) as a ramp through
\* 50% at the money that loses 1% per 10 points of strike; "PE" is cdf - 1.
black_scholes_delta(S, K, option_type) ==
    LET cdf == Max(0, Min(100, 50 + ((S - K) \div 10)))
    IN  IF option_type = "CE" THEN cdf ELSE cdf - 100

\* the Black-Scholes fallback price of _get_simulated_ltp, in paise:
\* intrinsic value plus a time value that decays linearly with |S - K|
TheoPrice(S, K, option_type) ==
    LET intrinsic == IF option_type = "CE" THEN Max(S - K, 0) ELSE Max(K - S, 0)
        timeval == Max(0, 18000 - 30 * Abs(S - K))
    IN  100 * intrinsic + timeval

\* FyersClient.get_option_ltp under quote scenario q: 0 stands for None, and a
\* live market quotes every option at twice the fallback price
get_option_ltp(q, S, K, option_type) ==
    IF q = "none" THEN 0 ELSE 2 * TheoPrice(S, K, option_type)

_get_simulated_ltp(q, S, K, option_type) ==
    LET ltp == get_option_ltp(q, S, K, option_type)
    IN  IF ltp > 0 THEN ltp ELSE Max(MIN_LTP, TheoPrice(S, K, option_type))

\* Variant of the scan whose comparison is diff <= best_diff
RECURSIVE FindScanLastWins(_, _, _, _, _, _, _)
FindScanLastWins(S, target, option_type, k, last, best_strike, best_diff) ==
    IF k > last THEN best_strike
    ELSE LET diff == Abs(Abs(black_scholes_delta(S, k, option_type)) - target)
         IN  IF best_diff < 0 \/ diff <= best_diff
             THEN FindScanLastWins(S, target, option_type, k + STRIKE_STEP, last, k, diff)
             ELSE FindScanLastWins(S, target, option_type, k + STRIKE_STEP, last,
                                   best_strike, best_diff)

\* the scan of _find_strike_by_delta from strike k up to the ladder's end
RECURSIVE FindScan(_, _, _, _, _, _, _)
FindScan(S, target, option_type, k, last, best_strike, best_diff) ==
    IF k > last THEN best_strike
    ELSE LET diff == Abs(Abs(black_scholes_delta(S, k, option_type)) - target)
         IN  IF best_diff < 0 \/ diff < best_diff
             THEN FindScan(S, target, option_type, k + STRIKE_STEP, last, k, diff)
             ELSE FindScan(S, target, option_type, k + STRIKE_STEP, last,
                           best_strike, best_diff)

\* best_diff = -1 stands for float("inf")
FindStrike(S, target, option_type) ==
    FindScan(S, target, option_type, round_to_strike(S) - LADDER_HALF_WIDTH,
             round_to_strike(S) + LADDER_HALF_WIDTH, round_to_strike(S), -1)

\* the scan's results for the spots and targets the model uses, computed once
DeltaTargets == {CE_DELTA_TARGET, PE_DELTA_TARGET, HEDGE_DELTA_TARGET, ROLL_DELTA_TARGET}
StrikeTable ==
    [S \in SpotValues |-> [target \in DeltaTargets |-> [option_type \in {"CE", "PE"} |->
        FindStrike(S, target, option_type)]]]

_find_strike_by_delta(S, target, option_type) == StrikeTable[S][target][option_type]

(* ------------------------------------------------------------------ *)
(* Position (one leg)                                                  *)
(* ------------------------------------------------------------------ *)
Position(strike, option_type, side, entry_price, quantity, delta, is_hedge) ==
    [strike |-> strike, option_type |-> option_type, side |-> side,
     entry_price |-> entry_price, current_price |-> entry_price,
     quantity |-> quantity, delta |-> delta, is_hedge |-> is_hedge]

\* Position.pnl
LegPnl(p) ==
    LET sign == IF p.side = "SELL" THEN -1 ELSE 1
    IN  sign * (p.entry_price - p.current_price) * p.quantity

PnlSeq(ps) == [i \in 1..Len(ps) |-> LegPnl(ps[i])]

\* calculate_mtm(trade_id)
calculate_mtm(tid) ==
    IF tid \in DOMAIN active_positions THEN SumSeq(PnlSeq(active_positions[tid])) ELSE 0

(* ------------------------------------------------------------------ *)
(* The store (data/database.py)                                        *)
(* ------------------------------------------------------------------ *)
\* get_open_trades()
get_open_trades == {id \in DOMAIN trades : trades[id].status = "OPEN"}

\* get_trade_count_today()
get_trade_count_today == Cardinality({id \in DOMAIN trades : trades[id].trade_date = Today})

\* insert_trade(): the autoincrement primary key
NextTradeId == Cardinality(DOMAIN trades) + 1

TradeRow(premium, strategy_type) ==
    [status |-> "OPEN", close_reason |-> "", realized_pnl |-> 0,
     adjustment_level |-> 0, trade_date |-> Today,
     strategy_type |-> strategy_type, premium_collected |-> premium,
     closed_updates |-> 0]

\* update_trade(trade_id, {...}) has no effect on a missing row
update_trade(tbl, tid, field, value) ==
    IF tid \in DOMAIN tbl THEN [tbl EXCEPT ![tid][field] = value] ELSE tbl

\* the update of close_position: status, realized_pnl, close_reason in one UPDATE
update_trade_closed(tbl, tid, pnl, reason) ==
    IF tid \in DOMAIN tbl
    THEN [tbl EXCEPT ![tid].status = "CLOSED", ![tid].realized_pnl = pnl,
                     ![tid].close_reason = reason,
                     ![tid].closed_updates = tbl[tid].closed_updates + 1]
    ELSE tbl

\* _record_adjustment: insert_adjustment + update_trade(adjustment_level)
AdjustmentRecord(tid, level) == [trade_id |-> tid, level |-> level]

(* ------------------------------------------------------------------ *)
(* Threads                                                             *)
(* ------------------------------------------------------------------ *)
\* the locals of a call; breaching keeps the legs the Level 2 test found over
\* the limit when the call decided, prev (history) what last_tick held when
\* the tick started
NoLoc ==
    [op |-> "none", tid |-> 0, todo |-> {}, pnl |-> 0, reason |-> "",
     ret |-> "idle", spot |-> 0, positions |-> <<>>, premium |-> 0,
     strategy_type |-> "", level |-> 0, idx |-> 0, adj_count |-> 0,
     adj_base |-> 0, cond3 |-> FALSE, cond2 |-> FALSE, cond1 |-> FALSE,
     rolls |-> 0, total |-> 0, acc |-> 0, breaching |-> {}, prev |-> <<>>]

\* the call of thread t returns to the engine's caller, which drops the value
Return(t, v) ==
    /\ pc' = [pc EXCEPT ![t] = "idle"]
    /\ loc' = [loc EXCEPT ![t] = NoLoc]

\* the threads of the scheduler's pool: two for the monitor job, one for the
\* cron jobs
Workers == {"sched", "sched2"}
PoolThreads == Workers \cup {"cron"}

\* what a callback may end with: "none", or the class of the error it raises
ErrorKinds == {"KeyError", "OperationalError"}
ExceptionClasses == {"KeyError", "OperationalError", "ValueError"}

\* Variant of the wrapper without its try/except
_safe_callNoTry(fn, err) ==
    IF fn = "None" THEN "idle"
    ELSE IF err = "none" THEN "idle"
    ELSE "w_propagated"

\* wrapper(): if fn: try: fn() except Exception as e: log.error(...)
\* the step the job's thread is at when fn has ended with err
_safe_call(fn, err) ==
    IF fn = "None" THEN "idle"
    ELSE IF err = "none" THEN "idle"
    ELSE IF err \in ExceptionClasses THEN "w_except"
    ELSE "w_propagated"

\* an exception leaves the call of thread t (KeyError, ValueError): on a pool
\* thread it reaches the scheduler's wrapper, on a command thread the handler
Raise(t) ==
    /\ pc' = [pc EXCEPT ![t] = IF t \in PoolThreads
                               THEN _safe_call("callback", "KeyError") ELSE "idle"]
    /\ loc' = [loc EXCEPT ![t] = NoLoc]

Idle(t) == pc[t] = "idle"

\* the state after __init__; the trend signal is an input of the engine (the
\* engine reads supertrend_dir and never assigns it), so it is drawn here
InitEngine ==
    /\ is_running = FALSE
    /\ lock = Free
    /\ active_positions = EmptyMap
    /\ entry_spot = EmptyMap
    /\ entry_time = EmptyMap
    /\ adjustment_counts = EmptyMap
    /\ trade_premium = EmptyMap
    /\ spot = 0
    /\ supertrend_dir \in TrendValues
    /\ trade_date = ClockStart \div 1440
    /\ trades_today = 0
    /\ daily_pnl = 0
    /\ trades = EmptyMap
    /\ adjustments = <<>>
    /\ alerts = {}
    /\ now = ClockStart
    /\ pc = [t \in Threads |-> "idle"]
    /\ loc = [t \in Threads |-> NoLoc]
    /\ closed_mtm = 0

\* the listener before its first poll
NoTg == [offset |-> 0, upd |-> [update_id |-> 0], ran |-> <<>>, sent |-> <<>>]

\* no library call under study
NoProbe == [fn |-> "none"]

\* the history of the ticks is not kept
NoHistory == [kept |-> FALSE, seen |-> EmptyMap, no_spot |-> {}]

\* the server after its first _init_strategy: engine 1 is in state.strategy and
\* the scheduler's callbacks close over engine 1; built counts the engines
\* constructed so far (history)
InitState == [strategy |-> 1, scheduler |-> 1, built |-> 1]

Init ==
    /\ InitEngine
    /\ daily_summary = <<>>
    /\ tg = NoTg
    /\ order_requests = {}
    /\ probe = NoProbe
    /\ last_tick = NoHistory
    /\ state = InitState

(* ------------------------------------------------------------------ *)
(* start / stop                                                        *)
(* ------------------------------------------------------------------ *)
start ==
    /\ is_running' = TRUE
    /\ UNCHANGED <<lock, active_positions, entry_spot, entry_time,
                   adjustment_counts, trade_premium, spot, supertrend_dir,
                   trade_date, trades_today, daily_pnl, trades, adjustments,
                   alerts, now, pc, loc, closed_mtm, outside>>

\* Variant of stop that also empties the ledger
stopClearsLedger ==
    /\ is_running' = FALSE
    /\ active_positions' = EmptyMap
    /\ UNCHANGED <<lock, entry_spot, entry_time, adjustment_counts, trade_premium,
                   spot, supertrend_dir, trade_date, trades_today, daily_pnl,
                   trades, adjustments, alerts, now, pc, loc, closed_mtm, outside>>

stop ==
    /\ is_running' = FALSE
    /\ UNCHANGED <<lock, active_positions, entry_spot, entry_time,
                   adjustment_counts, trade_premium, spot, supertrend_dir,
                   trade_date, trades_today, daily_pnl, trades, adjustments,
                   alerts, now, pc, loc, closed_mtm, outside>>

(* ------------------------------------------------------------------ *)
(* The clock                                                           *)
(* ------------------------------------------------------------------ *)
Tick ==
    /\ now + MinutesPerTick <= ClockStart + MaxTicks * MinutesPerTick
    /\ now' = now + MinutesPerTick
    /\ UNCHANGED <<engine, store, alerts, pc, loc, closed_mtm, outside>>

(* ------------------------------------------------------------------ *)
(* check_entry / open_position                                         *)
(* ------------------------------------------------------------------ *)
\* capital * (risk_pct / 100), in paise
MaxLoss == Capital * RiskPct

\* start <= t <= stop
InSession == SESSION_START <= TimeOfDay /\ TimeOfDay <= SESSION_STOP

\* check_entry's day rollover happens once the first two gates are passed
EntryRollsOver == is_running /\ InSession /\ trade_date # Today

\* Variant of check_entry without the trend test
check_entryIgnoresTrend(tt) ==
    /\ is_running
    /\ InSession
    /\ ~(tt >= MAX_TRADES_PER_DAY)
    /\ ~(daily_pnl <= -MaxLoss)
    /\ ~(Cardinality(get_open_trades) >= 1)

\* the value check_entry returns; tt is the counter after the rollover
check_entry(tt) ==
    /\ is_running
    /\ InSession
    /\ ~(tt >= MAX_TRADES_PER_DAY)
    /\ ~(daily_pnl <= -MaxLoss)
    /\ supertrend_dir # "UNKNOWN"
    /\ ~(Cardinality(get_open_trades) >= 1)

\* open_position up to the return of check_entry
OpenCheckEntry(t, cap) ==
    /\ Idle(t)
    /\ Cardinality(DOMAIN trades) + Cardinality({u \in Threads : pc[u] = "o_build"}) < cap
    /\ \E strategy_type \in StrategyTypes :
         LET rolled == EntryRollsOver
             tt == IF rolled THEN get_trade_count_today ELSE trades_today
         IN  /\ trades_today' = tt
             /\ trade_date' = IF rolled THEN Today ELSE trade_date
             /\ IF check_entry(tt)
                THEN /\ pc' = [pc EXCEPT ![t] = "o_build"]
                     /\ loc' = [loc EXCEPT ![t] = [NoLoc EXCEPT !.op = "open_position",
                                                   !.strategy_type = strategy_type]]
                ELSE Return(t, 0)
    /\ UNCHANGED <<is_running, lock, active_positions, entry_spot, entry_time,
                   adjustment_counts, trade_premium, spot, supertrend_dir,
                   daily_pnl, trades, adjustments, alerts, now, closed_mtm, outside>>

\* the four strikes: <<ce, pe, ce_hedge, pe_hedge>>
SelectStrikes(S, strategy_type) ==
    IF strategy_type = "EXPIRY" /\ TimeOfDay >= EXPIRY_CUTOFF
    THEN LET atm == round_to_strike(S)
         IN  <<atm + EXPIRY_OTM_OFFSET, atm - EXPIRY_OTM_OFFSET,
               atm + EXPIRY_OTM_OFFSET + EXPIRY_HEDGE_OFFSET,
               atm - EXPIRY_OTM_OFFSET - EXPIRY_HEDGE_OFFSET>>
    ELSE <<_find_strike_by_delta(S, CE_DELTA_TARGET, "CE"),
           _find_strike_by_delta(S, PE_DELTA_TARGET, "PE"),
           _find_strike_by_delta(S, HEDGE_DELTA_TARGET, "CE"),
           _find_strike_by_delta(S, HEDGE_DELTA_TARGET, "PE")>>

\* qty = NIFTY_LOT_SIZE * self.num_lots
Quantity == NIFTY_LOT_SIZE * Max(1, NumLots)

\* Variant of NetCredit that adds the hedge prices instead of subtracting them
NetCreditGross(ce_px, pe_px, ceh_px, peh_px, qty) == (ce_px + pe_px + ceh_px + peh_px) * qty

\* premium = (ce_px + pe_px - ceh_px - peh_px) * qty
NetCredit(ce_px, pe_px, ceh_px, peh_px, qty) == (ce_px + pe_px - ceh_px - peh_px) * qty

\* the list of Position objects open_position builds
BuildPositions(S, K, q, qty) ==
    << Position(K[1], "CE", "SELL", _get_simulated_ltp(q, S, K[1], "CE"), qty,
                black_scholes_delta(S, K[1], "CE"), FALSE),
       Position(K[2], "PE", "SELL", _get_simulated_ltp(q, S, K[2], "PE"), qty,
                black_scholes_delta(S, K[2], "PE"), FALSE),
       Position(K[3], "CE", "BUY", _get_simulated_ltp(q, S, K[3], "CE"), qty,
                black_scholes_delta(S, K[3], "CE"), TRUE),
       Position(K[4], "PE", "BUY", _get_simulated_ltp(q, S, K[4], "PE"), qty,
                black_scholes_delta(S, K[4], "PE"), TRUE) >>

\* history, where it is kept: operation op has returned for want of a spot
NotedNoSpot(op) ==
    IF last_tick.kept THEN [last_tick EXCEPT !.no_spot = @ \cup {op}] ELSE last_tick

\* Variant of the missing spot in open_position that counts the attempt
OpenNoSpotCounts(t) ==
    /\ pc[t] = "o_build"
    /\ Return(t, 0)
    /\ trades_today' = trades_today + 1
    /\ last_tick' = NotedNoSpot("open_position")
    /\ UNCHANGED <<is_running, lock, active_positions, entry_spot, entry_time,
                   adjustment_counts, trade_premium, spot, supertrend_dir, trade_date,
                   daily_pnl, store, alerts, now, closed_mtm, daily_summary, tg,
                   order_requests, probe, state>>

\* spot = self.fyers.get_spot_price(); if not spot: log.error(...); return None
OpenNoSpot(t) ==
    /\ pc[t] = "o_build"
    /\ Return(t, 0)
    /\ last_tick' = NotedNoSpot("open_position")
    /\ UNCHANGED <<engine, store, alerts, now, closed_mtm, daily_summary, tg,
                   order_requests, probe, state>>

\* abs(pe_px) * qty, the estimate of the risk check, for the legs ps
EstimatedMaxLoss(ps) == Abs(ps[2].entry_price) * ps[2].quantity

\* Variant of the failed risk check that has already inserted the trade row
OpenRiskRejectPersists(t) ==
    /\ pc[t] = "o_build"
    /\ \E S \in SpotValues, q \in QuoteScn :
         LET ps == BuildPositions(S, SelectStrikes(S, loc[t].strategy_type), q, Quantity)
         IN  /\ EstimatedMaxLoss(ps) > MaxLoss
             /\ spot' = S
             /\ trades' = Put(trades, NextTradeId,
                              TradeRow(NetCredit(ps[1].entry_price, ps[2].entry_price,
                                                 ps[3].entry_price, ps[4].entry_price,
                                                 Quantity),
                                       loc[t].strategy_type))
             /\ Return(t, 0)
    /\ UNCHANGED <<is_running, lock, active_positions, entry_spot, entry_time,
                   adjustment_counts, trade_premium, supertrend_dir, trade_date,
                   trades_today, daily_pnl, adjustments, alerts, now, closed_mtm, outside>>

\* open_position from self.spot = spot to the risk check that fails:
\* if estimated_max_loss > max_loss_allowed: log.warning(...); return None
OpenRiskReject(t) ==
    /\ pc[t] = "o_build"
    /\ \E S \in SpotValues, q \in QuoteScn :
         LET ps == BuildPositions(S, SelectStrikes(S, loc[t].strategy_type), q, Quantity)
         IN  /\ EstimatedMaxLoss(ps) > MaxLoss
             /\ spot' = S
             /\ Return(t, 0)
    /\ UNCHANGED <<is_running, lock, active_positions, entry_spot, entry_time,
                   adjustment_counts, trade_premium, supertrend_dir, trade_date,
                   trades_today, daily_pnl, store, alerts, now, closed_mtm, outside>>

\* open_position from self.spot = spot, through the risk check that passes,
\* to insert_trade()
OpenPriced(t) ==
    /\ pc[t] = "o_build"
    /\ \E S \in SpotValues, q \in QuoteScn :
         LET K == SelectStrikes(S, loc[t].strategy_type)
             qty == Quantity
             ps == BuildPositions(S, K, q, qty)
             premium == NetCredit(ps[1].entry_price, ps[2].entry_price,
                                  ps[3].entry_price, ps[4].entry_price, qty)
             trade_id == NextTradeId
         IN  /\ ~(EstimatedMaxLoss(ps) > MaxLoss)
             /\ spot' = S
             /\ trades' = Put(trades, trade_id, TradeRow(premium, loc[t].strategy_type))
             /\ pc' = [pc EXCEPT ![t] = "o_insert"]
             /\ loc' = [loc EXCEPT ![t].tid = trade_id, ![t].spot = S,
                                   ![t].positions = ps,
                                   ![t].premium = premium]
    /\ UNCHANGED <<is_running, lock, active_positions, entry_spot, entry_time,
                   adjustment_counts, trade_premium, supertrend_dir, trade_date,
                   trades_today, daily_pnl, adjustments, alerts, now, closed_mtm, outside>>

\* open_position from get_spot_price() to insert_trade()
OpenBuild(t) == OpenNoSpot(t) \/ OpenRiskReject(t) \/ OpenPriced(t)

\* the "with self._lock" block of open_position, then the entry alert
OpenInsert(t) ==
    /\ pc[t] = "o_insert"
    /\ lock = Free
    /\ active_positions' = Put(active_positions, loc[t].tid, loc[t].positions)
    /\ entry_spot' = Put(entry_spot, loc[t].tid, loc[t].spot)
    /\ entry_time' = Put(entry_time, loc[t].tid, now)
    /\ adjustment_counts' = Put(adjustment_counts, loc[t].tid, 0)
    /\ trade_premium' = Put(trade_premium, loc[t].tid, loc[t].premium)
    /\ trades_today' = trades_today + 1
    /\ alerts' = alerts \cup {<<"ENTRY", loc[t].tid>>}
    /\ Return(t, loc[t].tid)
    /\ UNCHANGED <<is_running, lock, spot, supertrend_dir, trade_date, daily_pnl,
                   trades, adjustments, now, closed_mtm, outside>>

open_position(t, cap) == OpenCheckEntry(t, cap) \/ OpenBuild(t) \/ OpenInsert(t)

(* ------------------------------------------------------------------ *)
(* close_position                                                      *)
(* ------------------------------------------------------------------ *)
\* thread t calls close_position(tid, reason); "ret" is where the caller goes on
CallClose(t, l, tid, reason, ret) ==
    /\ pc' = [pc EXCEPT ![t] = "k_check"]
    /\ loc' = [loc EXCEPT ![t] = [l EXCEPT !.tid = tid, !.reason = reason, !.ret = ret]]

\* close_position returns v to its caller
CloseReturns(t, v) ==
    IF loc[t].ret = "idle"
    THEN Return(t, v)
    ELSE /\ pc' = [pc EXCEPT ![t] = loc[t].ret]
         /\ loc' = [loc EXCEPT ![t].total = IF loc[t].op = "close_all_positions"
                                            THEN loc[t].total + v ELSE 0,
                               ![t].pnl = 0, ![t].acc = 0, ![t].reason = "",
                               ![t].ret = "idle"]

\* a client calls close_position(trade_id)
ClosePositionCall(t, cap) ==
    /\ Idle(t)
    /\ \E tid \in 1..cap :
         CallClose(t, [NoLoc EXCEPT !.op = "close_position"], tid, "MANUAL", "idle")
    /\ UNCHANGED <<engine, store, alerts, now, closed_mtm, outside>>

\* Variant of CloseNotFound that goes on to the bookkeeping of a close
CloseNotFoundPersists(t) ==
    /\ trades' = update_trade_closed(trades, loc[t].tid, 0, loc[t].reason)
    /\ alerts' = alerts \cup {<<"EXIT", loc[t].tid>>}
    /\ CloseReturns(t, 0)
    /\ UNCHANGED <<engine, adjustments, now, closed_mtm, outside>>

\* the early return of close_position: return 0.0
CloseNotFound(t) ==
    /\ CloseReturns(t, 0)
    /\ UNCHANGED <<engine, store, alerts, now, closed_mtm, outside>>

\* if trade_id not in self.active_positions: return 0.0
CloseCheck(t) ==
    /\ pc[t] = "k_check"
    /\ IF loc[t].tid \notin DOMAIN active_positions
       THEN CloseNotFound(t)
       ELSE /\ pc' = [pc EXCEPT ![t] = "k_mtm"]
            /\ UNCHANGED <<loc, engine, store, alerts, now, closed_mtm, outside>>

\* pnl = self.calculate_mtm(trade_id)
CloseMtm(t) ==
    /\ pc[t] = "k_mtm"
    /\ pc' = [pc EXCEPT ![t] = "k_pop"]
    /\ loc' = [loc EXCEPT ![t].pnl = calculate_mtm(loc[t].tid)]
    /\ UNCHANGED <<engine, store, alerts, now, closed_mtm, outside>>

\* with self._lock: pop the trade id from the five maps
ClosePop(t) ==
    /\ pc[t] = "k_pop"
    /\ lock = Free
    /\ active_positions' = Pop(active_positions, loc[t].tid)
    /\ entry_spot' = Pop(entry_spot, loc[t].tid)
    /\ entry_time' = Pop(entry_time, loc[t].tid)
    /\ adjustment_counts' = Pop(adjustment_counts, loc[t].tid)
    /\ trade_premium' = Pop(trade_premium, loc[t].tid)
    /\ pc' = [pc EXCEPT ![t] = "k_add"]
    /\ UNCHANGED <<is_running, lock, spot, supertrend_dir, trade_date, trades_today,
                   daily_pnl, store, alerts, now, loc, closed_mtm, outside>>

\* self._daily_pnl += pnl, the load and the addition (no lock is held)
CloseAddPnl(t) ==
    /\ pc[t] = "k_add"
    /\ pc' = [pc EXCEPT ![t] = "k_persist"]
    /\ loc' = [loc EXCEPT ![t].acc = daily_pnl + loc[t].pnl]
    /\ UNCHANGED <<engine, store, alerts, now, closed_mtm, outside>>

\* self._daily_pnl += pnl, the store; update_trade(CLOSED); the exit alert;
\* return pnl
ClosePersist(t) ==
    /\ pc[t] = "k_persist"
    /\ daily_pnl' = loc[t].acc
    /\ trades' = update_trade_closed(trades, loc[t].tid, loc[t].pnl, loc[t].reason)
    /\ alerts' = alerts \cup {<<"EXIT", loc[t].tid>>}
    /\ closed_mtm' = closed_mtm + IF /\ loc[t].tid \in DOMAIN trades
                                     /\ trades[loc[t].tid].closed_updates = 0
                                  THEN loc[t].pnl ELSE 0
    /\ CloseReturns(t, loc[t].pnl)
    /\ UNCHANGED <<is_running, lock, active_positions, entry_spot, entry_time,
                   adjustment_counts, trade_premium, spot, supertrend_dir,
                   trade_date, trades_today, adjustments, now, outside>>

close_position(t) ==
    CloseCheck(t) \/ CloseMtm(t) \/ ClosePop(t) \/ CloseAddPnl(t) \/ ClosePersist(t)

(* ------------------------------------------------------------------ *)
(* close_all_positions                                                 *)
(* ------------------------------------------------------------------ *)
\* for trade_id in list(self.active_positions.keys())
CloseAllCall(t) ==
    /\ Idle(t)
    /\ pc' = [pc EXCEPT ![t] = "ca_next"]
    /\ loc' = [loc EXCEPT ![t] = [NoLoc EXCEPT !.op = "close_all_positions",
                                  !.todo = DOMAIN active_positions]]
    /\ UNCHANGED <<engine, store, alerts, now, closed_mtm, outside>>

CloseAllNext(t) ==
    /\ pc[t] = "ca_next"
    /\ IF loc[t].todo = {}
       THEN Return(t, loc[t].total)
       ELSE LET tid == MinOf(loc[t].todo)
            IN  CallClose(t, [loc[t] EXCEPT !.todo = loc[t].todo \ {tid}], tid,
                          "FORCE_CLOSE", "ca_next")
    /\ UNCHANGED <<engine, store, alerts, now, closed_mtm, outside>>

close_all_positions(t) == CloseAllCall(t) \/ CloseAllNext(t)

(* ------------------------------------------------------------------ *)
(* reset_day                                                           *)
(* ------------------------------------------------------------------ *)
\* with self._lock: for trade_id in list(self.active_positions.keys())
ResetDayCall(t) ==
    /\ Idle(t)
    /\ lock = Free
    /\ lock' = t
    /\ pc' = [pc EXCEPT ![t] = "rd_next"]
    /\ loc' = [loc EXCEPT ![t] = [NoLoc EXCEPT !.op = "reset_day",
                                  !.todo = DOMAIN active_positions]]
    /\ UNCHANGED <<is_running, active_positions, entry_spot, entry_time,
                   adjustment_counts, trade_premium, spot, supertrend_dir,
                   trade_date, trades_today, daily_pnl, store, alerts, now,
                   closed_mtm, outside>>

\* self._force_close_trade(trade_id, "DAY_RESET") for the next id, or, after the
\* loop, the clears and the release of the lock
ResetDayNext(t) ==
    /\ pc[t] = "rd_next"
    /\ IF loc[t].todo = {}
       THEN /\ active_positions' = EmptyMap
            /\ entry_spot' = EmptyMap
            /\ entry_time' = EmptyMap
            /\ adjustment_counts' = EmptyMap
            /\ trade_premium' = EmptyMap
            /\ trades_today' = 0
            /\ daily_pnl' = 0
            /\ trade_date' = Today
            /\ closed_mtm' = 0
            /\ lock' = Free
            /\ Return(t, 0)
       ELSE LET tid == MinOf(loc[t].todo)
            IN  /\ CallClose(t, [loc[t] EXCEPT !.todo = loc[t].todo \ {tid}], tid,
                             "DAY_RESET", "rd_next")
                /\ UNCHANGED <<active_positions, entry_spot, entry_time,
                               adjustment_counts, trade_premium, trades_today,
                               daily_pnl, trade_date, closed_mtm, lock>>
    /\ UNCHANGED <<is_running, spot, supertrend_dir, store, alerts, now, outside>>

reset_day(t) == ResetDayCall(t) \/ ResetDayNext(t)

(* ------------------------------------------------------------------ *)
(* monitor_positions                                                   *)
(* ------------------------------------------------------------------ *)
\* spot = self.fyers.get_spot_price(); if not spot: return. A tick without a
\* spot ends the history of the ticks before it.
MonitorNoSpot(t) ==
    /\ Idle(t)
    /\ Len(adjustments) < MaxAdj
    /\ DOMAIN active_positions # {}
    /\ Return(t, 0)
    /\ last_tick' = [NotedNoSpot("monitor_positions") EXCEPT !.seen = EmptyMap]
    /\ UNCHANGED <<engine, store, alerts, now, closed_mtm, daily_summary, tg,
                   order_requests, probe, state>>

\* if not self.active_positions: return; self.spot = spot; the key list
MonitorSpot(t) ==
    /\ Idle(t)
    /\ Len(adjustments) < MaxAdj
    /\ IF DOMAIN active_positions = {}
       THEN /\ Return(t, 0)
            /\ UNCHANGED spot
       ELSE \E S \in SpotValues :
                   /\ spot' = S
                   /\ pc' = [pc EXCEPT ![t] = "m_next"]
                   /\ loc' = [loc EXCEPT ![t] = [NoLoc EXCEPT !.op = "monitor_positions",
                                                 !.spot = S,
                                                 !.adj_base = Len(adjustments),
                                                 !.todo = DOMAIN active_positions,
                                                 !.prev = last_tick.seen]]
    /\ UNCHANGED <<is_running, lock, active_positions, entry_spot, entry_time,
                   adjustment_counts, trade_premium, supertrend_dir, trade_date,
                   trades_today, daily_pnl, store, alerts, now, closed_mtm, outside>>

\* monitor_positions up to the key list of its loop
MonitorStart(t) == MonitorNoSpot(t) \/ MonitorSpot(t)

\* the next trade id of the tick's loop
MonitorNext(t) ==
    /\ pc[t] = "m_next"
    /\ IF loc[t].todo = {}
       THEN Return(t, 0)
       ELSE LET tid == MinOf(loc[t].todo)
            IN  /\ pc' = [pc EXCEPT ![t] = "m_refresh"]
                /\ loc' = [loc EXCEPT ![t] =
                             [NoLoc EXCEPT !.op = "monitor_positions",
                                           !.spot = loc[t].spot,
                                           !.todo = loc[t].todo \ {tid},
                                           !.tid = tid,
                                           !.adj_base = Len(adjustments),
                                           !.prev = loc[t].prev]]
    /\ UNCHANGED <<engine, store, alerts, now, closed_mtm, outside>>

\* Variant of RefreshLeg that also moves the entry price to the new quote
RefreshLegRebases(p, q, S) ==
    [p EXCEPT !.current_price = _get_simulated_ltp(q, S, p.strike, p.option_type),
              !.entry_price = _get_simulated_ltp(q, S, p.strike, p.option_type),
              !.delta = black_scholes_delta(S, p.strike, p.option_type)]

\* the loop body of _update_position_prices
RefreshLeg(p, q, S) ==
    [p EXCEPT !.current_price = _get_simulated_ltp(q, S, p.strike, p.option_type),
              !.delta = black_scholes_delta(S, p.strike, p.option_type)]

_update_position_prices(tid, q, S) ==
    IF tid \in DOMAIN active_positions
    THEN [active_positions EXCEPT
            ![tid] = [i \in 1..Len(active_positions[tid]) |->
                        RefreshLeg(active_positions[tid][i], q, S)]]
    ELSE active_positions

\* _update_position_prices (its write of unrealized_pnl to the row is not
\* kept), then adjust_positions up to its membership test
MonitorRefresh(t) ==
    /\ pc[t] = "m_refresh"
    /\ \E q \in QuoteScn :
         active_positions' = _update_position_prices(loc[t].tid, q, loc[t].spot)
    /\ pc' = [pc EXCEPT ![t] = IF loc[t].tid \in DOMAIN active_positions
                               THEN "m_adjust" ELSE "m_expiry"]
    /\ UNCHANGED <<is_running, lock, entry_spot, entry_time, adjustment_counts,
                   trade_premium, spot, supertrend_dir, trade_date, trades_today,
                   daily_pnl, store, alerts, now, loc, closed_mtm, outside>>

\* spot_move >= threshold, thresholds in per-mille
SpotMoveAtLeast(S, entry_s, permille) == Abs(S - entry_s) * 1000 >= permille * entry_s

\* Level 3: spot_move >= GAMMA_L3_SPOT_MOVE and elapsed_min <= GAMMA_L3_TIME_WINDOW
Level3Cond(S, entry_s, entry_t) ==
    /\ SpotMoveAtLeast(S, entry_s, GAMMA_L3_SPOT_MOVE)
    /\ now - entry_t <= GAMMA_L3_TIME_WINDOW

\* Level 2: a non-hedge SELL leg with abs(delta) * 100 > GAMMA_L2_DELTA_LIMIT
Level2Breach(p) ==
    p.side = "SELL" /\ ~p.is_hedge /\ Abs(p.delta) > GAMMA_L2_DELTA_LIMIT

Level2Cond(positions) == \E i \in 1..Len(positions) : Level2Breach(positions[i])

\* the first breaching leg in list order
Level2Leg(positions) == MinOf({i \in 1..Len(positions) : Level2Breach(positions[i])})

\* Level 1: spot_move >= GAMMA_L1_SPOT_MOVE or premium_change >= GAMMA_L1_PREMIUM_PCT
Level1Cond(S, entry_s, current_pnl, premium) ==
    \/ SpotMoveAtLeast(S, entry_s, GAMMA_L1_SPOT_MOVE)
    \/ (premium # 0 /\ Abs(current_pnl) * 100 >= GAMMA_L1_PREMIUM_PCT * Abs(premium))

\* Variant of AdjustLevel that tests the levels in the order 1, 2, 3
AdjustLevelLowestFirst(c3, c2, c1) ==
    IF c1 THEN 1 ELSE IF c2 THEN 2 ELSE IF c3 THEN 3 ELSE 0

\* Variant of AdjustLevel that tests the delta breach before the Level 3 move
AdjustLevelDeltaFirst(c3, c2, c1) ==
    IF c2 THEN 2 ELSE IF c3 THEN 3 ELSE IF c1 THEN 1 ELSE 0

\* the level adjust_positions acts on: the first whose test holds, 0 for none
AdjustLevel(c3, c2, c1) == IF c3 THEN 3 ELSE IF c2 THEN 2 ELSE IF c1 THEN 1 ELSE 0

\* adjust_positions from its reads of the per-trade maps to _record_adjustment
MonitorAdjust(t) ==
    /\ pc[t] = "m_adjust"
    /\ LET tid == loc[t].tid
       IN  IF tid \notin DOMAIN active_positions
           THEN /\ Raise(t)
                /\ UNCHANGED store
           ELSE LET positions == active_positions[tid]
                    c3 == Level3Cond(loc[t].spot, entry_spot[tid], entry_time[tid])
                    c2 == Level2Cond(positions)
                    c1 == Level1Cond(loc[t].spot, entry_spot[tid], calculate_mtm(tid),
                                     trade_premium[tid])
                    level == AdjustLevel(c3, c2, c1)
                    l == [loc[t] EXCEPT !.cond3 = c3, !.cond2 = c2, !.cond1 = c1,
                                        !.level = level,
                                        !.adj_count = adjustment_counts[tid],
                                        !.idx = IF level = 2 THEN Level2Leg(positions) ELSE 0,
                                        !.breaching = {i \in 1..Len(positions) :
                                                         Level2Breach(positions[i])}]
                IN  /\ IF level = 0
                       THEN UNCHANGED store
                       ELSE /\ adjustments' = Append(adjustments, AdjustmentRecord(tid, level))
                            /\ trades' = update_trade(trades, tid, "adjustment_level", level)
                    /\ IF level = 3
                       THEN CallClose(t, l, tid, "GAMMA_L3", "m_expiry")
                       ELSE /\ pc' = [pc EXCEPT ![t] = IF level = 0 THEN "m_expiry"
                                                       ELSE "m_roll"]
                            /\ loc' = [loc EXCEPT ![t] = l]
    /\ UNCHANGED <<engine, alerts, now, closed_mtm, outside>>

\* Variant of the choice that takes the short leg nearest to the spot
UntestedLegNearest(positions, S) ==
    LET shorts == {i \in 1..Len(positions) :
                     positions[i].side = "SELL" /\ ~positions[i].is_hedge}
    IN  IF shorts = {} THEN 0
        ELSE MinOf({i \in shorts : \A j \in shorts :
                      Abs(positions[i].strike - S) <= Abs(positions[j].strike - S)})

\* max(short_legs, key=lambda p: abs(p.strike - spot)): the first maximum
UntestedLeg(positions, S) ==
    LET shorts == {i \in 1..Len(positions) :
                     positions[i].side = "SELL" /\ ~positions[i].is_hedge}
    IN  IF shorts = {} THEN 0
        ELSE MinOf({i \in shorts : \A j \in shorts :
                      Abs(positions[i].strike - S) >= Abs(positions[j].strike - S)})

\* Variant of the new leg whose quantity is one lot more than the old leg's
RolledLegOneLot(old_pos, q, S) ==
    LET new_strike == _find_strike_by_delta(S, ROLL_DELTA_TARGET, old_pos.option_type)
    IN  Position(new_strike, old_pos.option_type, "SELL",
                 _get_simulated_ltp(q, S, new_strike, old_pos.option_type),
                 NIFTY_LOT_SIZE + old_pos.quantity,
                 black_scholes_delta(S, new_strike, old_pos.option_type), FALSE)

\* the Position _roll_leg builds
RolledLeg(old_pos, q, S) ==
    LET new_strike == _find_strike_by_delta(S, ROLL_DELTA_TARGET, old_pos.option_type)
    IN  Position(new_strike, old_pos.option_type, "SELL",
                 _get_simulated_ltp(q, S, new_strike, old_pos.option_type),
                 old_pos.quantity,
                 black_scholes_delta(S, new_strike, old_pos.option_type), FALSE)

\* _roll_untested_leg / _roll_leg up to positions.remove(old_pos)
MonitorRoll(t) ==
    /\ pc[t] = "m_roll"
    /\ LET tid == loc[t].tid
       IN  IF tid \notin DOMAIN active_positions
           THEN /\ Raise(t)
                /\ UNCHANGED active_positions
           ELSE LET positions == active_positions[tid]
                    i == IF loc[t].level = 2 THEN loc[t].idx
                         ELSE UntestedLeg(positions, loc[t].spot)
                IN  IF i = 0
                    THEN /\ pc' = [pc EXCEPT ![t] = "m_append"]
                         /\ UNCHANGED <<loc, active_positions>>
                    ELSE \E q \in QuoteScn :
                           /\ active_positions' =
                                [active_positions EXCEPT ![tid] = RemoveAt(positions, i)]
                           /\ pc' = [pc EXCEPT ![t] = "m_append"]
                           /\ loc' = [loc EXCEPT
                                        ![t].positions =
                                            <<RolledLeg(positions[i], q, loc[t].spot)>>,
                                        ![t].rolls = loc[t].rolls + 1]
    /\ UNCHANGED <<is_running, lock, entry_spot, entry_time, adjustment_counts,
                   trade_premium, spot, supertrend_dir, trade_date, trades_today,
                   daily_pnl, store, alerts, now, closed_mtm, outside>>

\* Variant of the end of a roll that leaves the adjustment count as it is
MonitorAppendNoCount(t) ==
    /\ pc[t] = "m_append"
    /\ LET tid == loc[t].tid
       IN  /\ active_positions' =
                IF tid \in DOMAIN active_positions
                THEN [active_positions EXCEPT ![tid] = active_positions[tid] \o loc[t].positions]
                ELSE active_positions
           /\ alerts' = alerts \cup {<<IF loc[t].level = 2 THEN "ADJ_L2" ELSE "ADJ_L1", tid>>}
    /\ pc' = [pc EXCEPT ![t] = "m_expiry"]
    /\ loc' = [loc EXCEPT ![t].positions = <<>>]
    /\ UNCHANGED <<is_running, lock, entry_spot, entry_time, trade_premium, spot,
                   supertrend_dir, trade_date, trades_today, daily_pnl, store, now,
                   closed_mtm, outside, adjustment_counts>>

\* positions.append(new leg); self.adjustment_counts[trade_id] = adj_count + 1;
\* the adjustment alert
MonitorAppend(t) ==
    /\ pc[t] = "m_append"
    /\ LET tid == loc[t].tid
       IN  /\ active_positions' =
                IF tid \in DOMAIN active_positions
                THEN [active_positions EXCEPT ![tid] = active_positions[tid] \o loc[t].positions]
                ELSE active_positions
           /\ adjustment_counts' = Put(adjustment_counts, tid, loc[t].adj_count + 1)
           /\ alerts' = alerts \cup {<<IF loc[t].level = 2 THEN "ADJ_L2" ELSE "ADJ_L1", tid>>}
    /\ pc' = [pc EXCEPT ![t] = "m_expiry"]
    /\ loc' = [loc EXCEPT ![t].positions = <<>>]
    /\ UNCHANGED <<is_running, lock, entry_spot, entry_time, trade_premium, spot,
                   supertrend_dir, trade_date, trades_today, daily_pnl, store, now,
                   closed_mtm, outside>>

\* history: the spot of the tick of thread t, the level it acted on for its
\* structure and the legs it leaves
TickSeen(t) ==
    [spot |-> loc[t].spot, level |-> loc[t].level,
     positions |-> IF loc[t].tid \in DOMAIN active_positions
                   THEN active_positions[loc[t].tid] ELSE <<>>]

\* _check_expiry_targets
MonitorExpiry(t) ==
    /\ pc[t] = "m_expiry"
    /\ LET tid == loc[t].tid
           premium == IF tid \in DOMAIN trade_premium THEN trade_premium[tid] ELSE 0
           pnl == calculate_mtm(tid)
       IN  IF premium <= 0
           THEN /\ pc' = [pc EXCEPT ![t] = "m_next"]
                /\ UNCHANGED loc
           ELSE IF pnl * 100 >= premium * EXPIRY_TARGET_PCT
           THEN CallClose(t, loc[t], tid, "TARGET_HIT", "m_next")
           ELSE IF pnl <= -premium * EXPIRY_STOP_MULT
           THEN CallClose(t, loc[t], tid, "STOP_LOSS", "m_next")
           ELSE /\ pc' = [pc EXCEPT ![t] = "m_next"]
                /\ UNCHANGED loc
    /\ last_tick' = IF last_tick.kept
                    THEN [last_tick EXCEPT !.seen = Put(@, loc[t].tid, TickSeen(t))]
                    ELSE last_tick
    /\ UNCHANGED <<engine, store, alerts, now, closed_mtm, daily_summary, tg,
                   order_requests, probe, state>>

monitor_positions(t) ==
    \/ MonitorStart(t) \/ MonitorNext(t) \/ MonitorRefresh(t) \/ MonitorAdjust(t)
    \/ MonitorRoll(t) \/ MonitorAppend(t) \/ MonitorExpiry(t)

(* ------------------------------------------------------------------ *)
(* The system                                                          *)
(* ------------------------------------------------------------------ *)
\* the operations the command channel calls
Command(t, cap) ==
    \/ open_position(t, cap)
    \/ ClosePositionCall(t, cap)
    \/ close_all_positions(t)
    \/ reset_day(t)

\* add_job(..., "interval", seconds=30, id="monitor") is given no
\* max_instances, so the scheduler's default of one instance per job applies
max_instances == 1

\* the except clause of the wrapper: log.error, and the job's run ends
SafeCallExcept(t) ==
    /\ pc[t] = "w_except"
    /\ Return(t, 0)
    /\ UNCHANGED <<engine, store, alerts, now, closed_mtm, outside>>

\* the instances of the monitor job that are executing
RunningMonitors == {w \in Workers : pc[w] # "idle"}

\* Variant of the submission test that never skips a due run
MaySubmitMonitorAlways == TRUE

\* a due run is submitted only below max_instances, and skipped otherwise
MaySubmitMonitor == Cardinality(RunningMonitors) < max_instances

\* the pool hands a submitted run to a free thread
FreeWorker == IF pc["sched"] = "idle" THEN "sched" ELSE "sched2"

\* Variant of the monitor job that runs only while the engine is running
MonitorJobWhileRunning(w) ==
    /\ is_running
    /\ pc[w] = "idle" => (MaySubmitMonitor /\ w = FreeWorker)
    /\ monitor_positions(w) \/ SafeCallExcept(w)

\* the monitor job on pool thread w: a new run, or a step of a running one
MonitorJob(w) ==
    /\ pc[w] = "idle" => (MaySubmitMonitor /\ w = FreeWorker)
    /\ monitor_positions(w) \/ SafeCallExcept(w)

(* ------------------------------------------------------------------ *)
(* End-of-day summary                                                  *)
(* ------------------------------------------------------------------ *)
\* get_trades_for_date(d)
get_trades_for_date(d) == {id \in DOMAIN trades : trades[id].trade_date = d}

\* sum(t.get("realized_pnl", 0) or 0 for t in closed)
RECURSIVE SumPnl(_)
SumPnl(ids) ==
    IF ids = {} THEN 0
    ELSE LET id == MinOf(ids) IN trades[id].realized_pnl + SumPnl(ids \ {id})

\* generate_eod_summary up to its summary dict; win_rate in whole percent
EodSummary ==
    LET closed == {id \in get_trades_for_date(Today) : trades[id].status = "CLOSED"}
        wins == {id \in closed : trades[id].realized_pnl > 0}
    IN  [trade_date |-> Today,
         total_trades |-> Cardinality(closed),
         winning_trades |-> Cardinality(wins),
         net_pnl |-> SumPnl(closed),
         max_drawdown |-> IF closed = {} THEN 0
                          ELSE MinOf({trades[id].realized_pnl : id \in closed}),
         capital_used |-> Capital,
         win_rate |-> IF closed = {} THEN 0
                      ELSE (Cardinality(wins) * 100) \div Cardinality(closed)]

\* Variant of upsert_daily_summary that always inserts
upsert_daily_summaryInserts(tbl, summary) == Append(tbl, summary)

\* upsert_daily_summary: update the rows of the summary's date, or insert one
upsert_daily_summary(tbl, summary) ==
    IF \E i \in 1..Len(tbl) : tbl[i].trade_date = summary.trade_date
    THEN [i \in 1..Len(tbl) |->
            IF tbl[i].trade_date = summary.trade_date THEN summary ELSE tbl[i]]
    ELSE Append(tbl, summary)

\* generate_eod_summary(): the summary is written to the store and returned
generate_eod_summary == upsert_daily_summary(daily_summary, EodSummary)

\* job id=force_close: _safe_call(on_force_close), close_all_positions("FORCE_CLOSE")
JobForceClose(t) == close_all_positions(t) \/ close_position(t) \/ SafeCallExcept(t)

\* job id=eod_report: _safe_call(on_eod_report); the summary reads the store,
\* which may fail before anything is written, and is written and sent out
JobEodReport(t) ==
    /\ Idle(t)
    /\ \E err \in ErrorKinds \cup {"none"} :
         /\ pc' = [pc EXCEPT ![t] = _safe_call("callback", err)]
         /\ daily_summary' = IF err = "none" THEN generate_eod_summary
                              ELSE daily_summary
    /\ UNCHANGED <<engine, store, alerts, now, loc, closed_mtm, tg, order_requests,
                   probe, last_tick, state>>

\* the five jobs of the scheduler (market_open is start, no_new_trades is stop)
\* beside one command thread that opens structures
NextSched ==
    \/ start
    \/ stop
    \/ JobForceClose("cron")
    \/ JobEodReport("cron")
    \/ \E w \in Workers : MonitorJob(w) \/ close_position(w)
    \/ open_position("cmd1", MaxTrades)

SpecSched == Init /\ [][NextSched]_vars

\* the scheduler's monitor job beside one command thread
Next ==
    \/ start
    \/ stop
    \/ Tick
    \/ \E w \in Workers : MonitorJob(w)
    \/ Command("cmd1", MaxTrades)
    \/ \E t \in Workers \cup {"cmd1"} : close_position(t)

Spec == Init /\ [][Next]_vars

\* Spec with the history of the ticks kept
InitKept ==
    /\ InitEngine
    /\ daily_summary = <<>>
    /\ tg = NoTg
    /\ order_requests = {}
    /\ probe = NoProbe
    /\ last_tick = [NoHistory EXCEPT !.kept = TRUE]
    /\ state = InitState

\* the monitor job beside one command thread, the clock standing still
NextKept ==
    \/ start
    \/ \E w \in Workers : MonitorJob(w)
    \/ Command("cmd1", MaxTrades)
    \/ \E t \in Workers \cup {"cmd1"} : close_position(t)

SpecKept == InitKept /\ [][NextKept]_vars

\* every step thread t can take
ThreadStep(t) == monitor_positions(t) \/ Command(t, MaxTrades) \/ close_position(t)

\* two command threads, no monitor tick
NextCmd ==
    \/ start
    \/ stop
    \/ \E t \in {"cmd1", "cmd2"} : Command(t, MaxCmdTrades) \/ close_position(t)

SpecCmd == Init /\ [][NextCmd]_vars

\* one command thread issuing the operations one after the other on one day
NextDay ==
    \/ start
    \/ stop
    \/ Command("cmd1", MaxDayTrades)
    \/ close_position("cmd1")

SpecDay == Init /\ [][NextDay]_vars

\* the spot price of a market that does not move
QuietSpot == MinOf(SpotValues)

\* the step reads no other spot price than QuietSpot
QuietMarket == spot' \in {spot, QuietSpot}

\* the monitor job beside two command threads that open and one that closes,
\* in a market that does not move
NextTick ==
    \/ start
    \/ \E t \in {"cmd1", "cmd2"} : open_position(t, MaxCmdTrades) /\ QuietMarket
    \/ ClosePositionCall("cmd1", MaxCmdTrades)
    \/ \E w \in Workers : MonitorJob(w) /\ QuietMarket
    \/ \E t \in Workers \cup {"cmd1"} : close_position(t)

SpecTick == Init /\ [][NextTick]_vars

(* ------------------------------------------------------------------ *)
(* Properties                                                          *)
(* ------------------------------------------------------------------ *)

(* ------------------------------------------------------------------ *)
(* Telegram command listener (alerts/telegram_commands.py)             *)
(* ------------------------------------------------------------------ *)
\* self.chat_id
OwnerChat == "owner"

\* the updates getUpdates may return: without a message, or with one from the
\* owner's chat, another chat or no chat id (""), whose text is a command word
\* in either case, with or without a slash
Updates ==
    LET Words == {"START", "STOP", "STATUS", "PAUSE", "RESUME", "HELP", "HELLO"}
        Texts == [word : Words, slash : BOOLEAN, upper : BOOLEAN]
    IN  [has_message : {TRUE}, chat : {OwnerChat, "stranger", ""}, text : Texts]
          \cup {[has_message |-> FALSE]}

\* (msg.get("text") or "").strip().upper(), leading slash stripped
CommandText(text) == text.word

\* the callback a command word runs, "" for the words that run none
CallbackOf(word) ==
    CASE word = "START" -> "on_start"
      [] word = "STOP" -> "on_stop"
      [] word = "STATUS" -> "on_status"
      [] word = "PAUSE" -> "on_pause"
      [] word = "RESUME" -> "on_resume"
      [] OTHER -> ""

\* the messages _handle_update sends itself for a command word
RepliesOf(word) ==
    CASE word \in {"START", "STOP", "PAUSE", "RESUME"} -> <<"received " \o word>>
      [] word = "STATUS" -> <<>>
      [] word = "HELP" -> <<"help">>
      [] OTHER -> <<"unknown command">>

\* Variant of the owner test that accepts every sender
IsOwnerAnyone(upd) == TRUE

\* sender_id != self.chat_id: return
IsOwner(upd) == upd.chat = OwnerChat

\* _poll_loop for one update: self._offset = update_id + 1, _handle_update(upd);
\* a callback is started on a thread of its own, its work is a command of the
\* engine
HandleUpdate ==
    /\ tg.offset < MaxUpdates
    /\ \E u \in Updates :
         LET upd == u @@ [update_id |-> tg.offset + 1]
             acts == upd.has_message /\ IsOwner(upd)
             word == IF acts THEN CommandText(upd.text) ELSE ""
         IN  tg' = [offset |-> upd.update_id,
                    upd |-> upd,
                    ran |-> IF acts /\ CallbackOf(word) # ""
                            THEN Append(tg.ran, CallbackOf(word)) ELSE tg.ran,
                    sent |-> IF acts THEN tg.sent \o RepliesOf(word) ELSE tg.sent]
    /\ UNCHANGED <<engine, store, alerts, now, pc, loc, closed_mtm, daily_summary,
                   order_requests, probe, last_tick, state>>

SpecTg == Init /\ [][HandleUpdate]_vars

(* ------------------------------------------------------------------ *)
(* Order methods of the broker client (data/fyers_client.py)           *)
(* ------------------------------------------------------------------ *)
\* Variant of the configuration with paper trading switched off
PAPER_MODEOff == FALSE

\* PAPER_MODE = True
PAPER_MODE == TRUE

\* place_order(order): the simulated result, or the broker's reply to the
\* request on /orders/sync
place_order ==
    \E order \in [side : {"BUY", "SELL"}, qty : {NIFTY_LOT_SIZE}] :
      IF PAPER_MODE
      THEN /\ probe' = [fn |-> "place_order", arg |-> order,
                        result |-> [s |-> "ok", id |-> "PAPER_1", paper |-> TRUE]]
           /\ UNCHANGED <<engine, store, alerts, now, pc, loc, closed_mtm,
                          daily_summary, tg, order_requests, last_tick, state>>
      ELSE /\ order_requests' = order_requests
                                  \cup {[method |-> "POST", path |-> "/orders/sync"]}
           /\ \E s \in {"ok", "error"} :
                probe' = [fn |-> "place_order", arg |-> order,
                          result |-> [s |-> s, id |-> "24010100001", paper |-> FALSE]]
           /\ UNCHANGED <<engine, store, alerts, now, pc, loc, closed_mtm,
                          daily_summary, tg, last_tick, state>>

\* cancel_order(order_id): the simulated result, or the broker's reply to the
\* DELETE request on /orders/{order_id}
cancel_order ==
    \E order_id \in {"PAPER_1", "24010100001"} :
      IF PAPER_MODE
      THEN /\ probe' = [fn |-> "cancel_order", arg |-> order_id,
                        result |-> [s |-> "ok", id |-> order_id, paper |-> TRUE]]
           /\ UNCHANGED <<engine, store, alerts, now, pc, loc, closed_mtm,
                          daily_summary, tg, order_requests, last_tick, state>>
      ELSE /\ order_requests' = order_requests
                                  \cup {[method |-> "DELETE", path |-> "/orders/" \o order_id]}
           /\ \E s \in {"ok", "error"} :
                probe' = [fn |-> "cancel_order", arg |-> order_id,
                          result |-> [s |-> s, id |-> order_id, paper |-> FALSE]]
           /\ UNCHANGED <<engine, store, alerts, now, pc, loc, closed_mtm,
                          daily_summary, tg, last_tick, state>>

\* the engine's operations beside a caller of the client's order methods
NextPaper ==
    \/ start
    \/ place_order
    \/ cancel_order
    \/ \E w \in Workers : MonitorJob(w)
    \/ Command("cmd1", MaxTrades)
    \/ close_position("cmd1")

SpecPaper == Init /\ [][NextPaper]_vars

(* ------------------------------------------------------------------ *)
(* Library functions (core/indicators.py), called on drawn inputs      *)
(* ------------------------------------------------------------------ *)
MaxLegs == 3            \* legs in the list given to compute_gamma_risk_score

\* round(x, 0) of x = n / d with d > 0: to the nearest integer, a tie to the
\* even one
RoundHalfEven(n, d) ==
    LET q == n \div d
        r == n % d
    IN  IF 2 * r > d \/ (2 * r = d /\ q % 2 = 1) THEN q + 1 ELSE q

\* total_gamma_exposure, in units of 0.0001
RECURSIVE total_gamma_exposure(_, _)
total_gamma_exposure(positions, S) ==
    IF positions = <<>> THEN 0
    ELSE LET pos == positions[Len(positions)]
             sign == IF pos.side = "SELL" THEN -1 ELSE 1
         IN  total_gamma_exposure(SubSeq(positions, 1, Len(positions) - 1), S)
               + sign * pos.gamma * pos.quantity * S

\* the clip of the exposure, 50000 in units of 0.0001
GAMMA_CLIP == 500000000

\* Variant of compute_gamma_risk_score without the clip
compute_gamma_risk_scoreNoClip(positions, S) ==
    5000 + RoundHalfEven(total_gamma_exposure(positions, S), GAMMA_CLIP \div 5000)

\* compute_gamma_risk_score(positions, spot), in hundredths:
\* round(50 + clamped / 50000 * 50, 2)
compute_gamma_risk_score(positions, S) ==
    LET clamped == Max(-GAMMA_CLIP, Min(GAMMA_CLIP, total_gamma_exposure(positions, S)))
    IN  5000 + RoundHalfEven(clamped, GAMMA_CLIP \div 5000)

\* the lists of up to MaxLegs legs, gamma in units of 0.0001, at each spot
GammaInputs ==
    LET GammaLegs == [gamma : {0, 2, 300, 320}, quantity : {NIFTY_LOT_SIZE},
                      side : {"SELL", "BUY"}]
    IN  [fn : {"compute_gamma_risk_score"}, called : {FALSE},
         positions : UNION {[1..n -> GammaLegs] : n \in 0..MaxLegs},
         spot : SpotValues]

\* a call of compute_gamma_risk_score on the drawn input
GammaScoreCall ==
    /\ probe.fn = "compute_gamma_risk_score"
    /\ ~probe.called
    /\ probe' = [probe EXCEPT !.called = TRUE] @@
                  [result |-> compute_gamma_risk_score(probe.positions, probe.spot)]
    /\ UNCHANGED <<engine, store, alerts, now, pc, loc, closed_mtm, daily_summary, tg,
                   order_requests, last_tick, state>>

MaxBars == 4            \* bars in the frame given to compute_supertrend

\* tr: the row maximum of high - low, |high - close.shift(1)|, |low - close.shift(1)|,
\* the two last being NaN on the first bar
TrueRange(df, i) ==
    IF i = 1 THEN df[1].high - df[1].low
    ELSE Max(df[i].high - df[i].low,
             Max(Abs(df[i].high - df[i - 1].close), Abs(df[i].low - df[i - 1].close)))

\* atr = tr.ewm(span=period, adjust=False).mean(): alpha = 2 / (period + 1);
\* atr and the bands are in units of 1/8
RECURSIVE atr(_, _, _)
atr(df, period, i) ==
    IF i = 1 THEN 8 * TrueRange(df, 1)
    ELSE ((period - 1) * atr(df, period, i - 1) + 2 * 8 * TrueRange(df, i))
           \div (period + 1)

upper_band(df, period, multiplier, i) ==
    4 * (df[i].high + df[i].low) + multiplier * atr(df, period, i)

lower_band(df, period, multiplier, i) ==
    4 * (df[i].high + df[i].low) - multiplier * atr(df, period, i)

\* final_ub and final_lb of bar i > 1, given the rows of the bars before it
FinalBands(df, period, multiplier, rows, i) ==
    IF i = 2
    THEN [ub |-> upper_band(df, period, multiplier, i),
          lb |-> lower_band(df, period, multiplier, i)]
    ELSE LET prev_close == 8 * df[i - 1].close
             prev_ub == IF rows[i - 1].direction = -1 THEN rows[i - 1].supertrend
                        ELSE upper_band(df, period, multiplier, i - 1)
             prev_lb == IF rows[i - 1].direction = 1 THEN rows[i - 1].supertrend
                        ELSE lower_band(df, period, multiplier, i - 1)
             ub == upper_band(df, period, multiplier, i)
             lb == lower_band(df, period, multiplier, i)
         IN  [ub |-> IF ub < prev_ub \/ prev_close > prev_ub THEN ub ELSE prev_ub,
              lb |-> IF lb > prev_lb \/ prev_close < prev_lb THEN lb ELSE prev_lb]

\* Variant of the loop body that assigns a bar only when the direction flips
SupertrendBarOnFlip(prev_dir, curr_close, final) ==
    IF prev_dir = 1
    THEN IF curr_close < final.lb THEN [direction |-> -1, supertrend |-> final.ub]
         ELSE [direction |-> 0, supertrend |-> 0]
    ELSE IF curr_close > final.ub THEN [direction |-> 1, supertrend |-> final.lb]
         ELSE [direction |-> 0, supertrend |-> 0]

\* the loop body: direction and supertrend of the bar
SupertrendBar(prev_dir, curr_close, final) ==
    IF prev_dir = 1
    THEN IF curr_close < final.lb THEN [direction |-> -1, supertrend |-> final.ub]
         ELSE [direction |-> 1, supertrend |-> final.lb]
    ELSE IF curr_close > final.ub THEN [direction |-> 1, supertrend |-> final.lb]
         ELSE [direction |-> -1, supertrend |-> final.ub]

\* the columns supertrend and direction up to bar n; 0 stands for the NaN of a
\* bar the loop never assigns
RECURSIVE SupertrendRows(_, _, _, _)
SupertrendRows(df, period, multiplier, n) ==
    IF n = 1 THEN <<[direction |-> 0, supertrend |-> 0]>>
    ELSE LET rows == SupertrendRows(df, period, multiplier, n - 1)
             prev_dir == IF n > 2 THEN rows[n - 1].direction ELSE 1
         IN  Append(rows, SupertrendBar(prev_dir, 8 * df[n].close,
                                        FinalBands(df, period, multiplier, rows, n)))

\* compute_supertrend(df, period, multiplier): the columns supertrend and
\* st_direction = direction.map({1: "BULLISH", -1: "BEARISH"})
compute_supertrend(df, period, multiplier) ==
    LET rows == SupertrendRows(df, period, multiplier, Len(df))
    IN  [i \in 1..Len(df) |->
           [supertrend |-> rows[i].supertrend,
            direction |-> rows[i].direction,
            st_direction |-> CASE rows[i].direction = 1 -> "BULLISH"
                               [] rows[i].direction = -1 -> "BEARISH"
                               [] OTHER -> "NaN"]]

\* frames of up to MaxBars OHLC bars with low <= close <= high
SupertrendInputs ==
    LET BarPrices == {22000, 22010, 22050}
        Bars == {b \in [high : BarPrices, low : BarPrices, close : BarPrices] :
                   b.low <= b.close /\ b.close <= b.high}
    IN  [fn : {"compute_supertrend"}, called : {FALSE},
         df : UNION {[1..n -> Bars] : n \in 1..MaxBars},
         period : {1, 3}, multiplier : {1, 3}]

\* a call of compute_supertrend on the drawn frame
SupertrendCall ==
    /\ probe.fn = "compute_supertrend"
    /\ ~probe.called
    /\ probe' = [probe EXCEPT !.called = TRUE] @@
                  [result |-> compute_supertrend(probe.df, probe.period, probe.multiplier)]
    /\ UNCHANGED <<engine, store, alerts, now, pc, loc, closed_mtm, daily_summary, tg,
                   order_requests, last_tick, state>>

\* spots on and off the strike grid, and targets from 0 to 100 percent
FindStrikeInputs ==
    [fn : {"_find_strike_by_delta"}, called : {FALSE},
     spot : {22000 + 5 * k : k \in 0..19},
     target_delta : DeltaTargets \cup {0, 100}, opt_type : {"CE", "PE"}]

\* a call of _find_strike_by_delta on the drawn input
FindStrikeCall ==
    /\ probe.fn = "_find_strike_by_delta"
    /\ ~probe.called
    /\ probe' = [probe EXCEPT !.called = TRUE] @@
                  [result |-> FindStrike(probe.spot, probe.target_delta, probe.opt_type)]
    /\ UNCHANGED <<engine, store, alerts, now, pc, loc, closed_mtm, daily_summary, tg,
                   order_requests, last_tick, state>>

\* the all-zero Greek set with the input vol echoed
ZeroGreeks(sigma) == [delta |-> 0, gamma |-> 0, iv |-> sigma]

\* black_scholes_greeks(S, K, T, sigma=sigma, option_type=option_type): delta in
\* percent, gamma in units of 0.0001, sigma in percent, T in days. log(S / K)
\* raises for K = 0 and for S / K <= 0 and the division by sigma * sqrt(T)
\* raises for sigma = 0; the except clause returns the zero set. A negative
\* sigma raises nothing: it changes the sign of d1 and of gamma.
black_scholes_greeks(S, K, T, sigma, option_type) ==
    IF T <= 0 THEN ZeroGreeks(sigma)
    ELSE IF K = 0 \/ (S <= 0) # (K < 0) \/ S = 0 \/ sigma = 0 THEN ZeroGreeks(sigma)
    ELSE LET cdf == IF sigma > 0 THEN black_scholes_delta(S, K, "CE")
                    ELSE 100 - black_scholes_delta(S, K, "CE")
             pdf == Max(0, 9 - (Abs(S - K) \div 100))
         IN  [delta |-> IF option_type = "CE" THEN cdf ELSE cdf - 100,
              gamma |-> IF sigma > 0 THEN pdf ELSE -pdf,
              iv |-> sigma]

\* spots and strikes with the degenerate ones, T before, at and after expiry,
\* sigma negative, zero and the default
GreeksInputs ==
    [fn : {"black_scholes_greeks"}, called : {FALSE},
     S : SpotValues \cup {0, -22000}, K : {0, 21900, 22000, 22300},
     T : {-1, 0, 7}, sigma : {-15, 0, 15}, option_type : {"CE", "PE"}]

\* a call of black_scholes_greeks on the drawn input
GreeksCall ==
    /\ probe.fn = "black_scholes_greeks"
    /\ ~probe.called
    /\ probe' = [probe EXCEPT !.called = TRUE] @@
                  [result |-> black_scholes_greeks(probe.S, probe.K, probe.T,
                                                   probe.sigma, probe.option_type)]
    /\ UNCHANGED <<engine, store, alerts, now, pc, loc, closed_mtm, daily_summary, tg,
                   order_requests, last_tick, state>>

InitPure ==
    /\ InitEngine
    /\ daily_summary = <<>>
    /\ tg = NoTg
    /\ order_requests = {}
    /\ last_tick = NoHistory
    /\ state = InitState
    /\ probe \in GammaInputs \cup SupertrendInputs \cup FindStrikeInputs
                 \cup GreeksInputs

NextPure ==
    \/ GammaScoreCall
    \/ SupertrendCall
    \/ FindStrikeCall
    \/ GreeksCall

SpecPure == InitPure /\ [][NextPure]_vars

\* thread t is inside close_position, at its membership test, for an id the
\* ledger does not hold
ClosingUnknown(t) == pc[t] = "k_check" /\ loc[t].tid \notin DOMAIN active_positions

\* C1: close_position called with a trade id that is not in the ledger returns
\* 0.0 and changes nothing: the ledger and the per-trade maps, the daily P&L,
\* the trade counter, the persisted rows and the notifications stay as they
\* were (the returned 0.0 is seen in the running total of close_all_positions).
C1_CloseUnknownIsNoop ==
    [][\A t \in Threads :
         (ClosingUnknown(t) /\ pc'[t] # "k_check")
         => /\ UNCHANGED <<engine, store, alerts, closed_mtm, outside>>
            /\ pc'[t] = loc[t].ret
            /\ loc[t].ret # "idle" => loc'[t].total = loc[t].total]_vars

\* a close of an id whose structure was closed before: the row exists, CLOSED
C1_Witness ==
    \E t \in Threads :
      /\ ClosingUnknown(t)
      /\ loc[t].tid \in DOMAIN trades
      /\ trades[loc[t].tid].status = "CLOSED"
      /\ daily_pnl # 0

\* C2: reset_day called while N >= 1 structures are open completes (and leaves
\* them CLOSED with reason DAY_RESET, the maps empty, counter and P&L zero):
\* a reset_day in progress can always take its next step.
C2_ResetDayCompletes ==
    \A t \in Threads :
      loc[t].op = "reset_day" => ENABLED (reset_day(t) \/ close_position(t))

\* C3: every public operation eventually returns and no thread waits forever
\* on the lock: every operation in progress can take its next step, or waits
\* for the lock while the thread that holds it can take a step.
C3_NoThreadWaitsForever ==
    \A t \in {"sched", "cmd1"} :
      pc[t] # "idle"
      => \/ ENABLED ThreadStep(t)
         \/ /\ lock \in {"sched", "cmd1"} \ {t}
            /\ ENABLED ThreadStep(lock)

\* C4: the ledger holds at most one open structure in every reachable state,
\* two concurrent open_position calls included.
C4_AtMostOneOpen == Cardinality(DOMAIN active_positions) <= 1

\* thread t has decided to roll a leg of, or to close, structure tid and has
\* not finished doing so
Mutating(t, tid) ==
    /\ loc[t].tid = tid
    /\ pc[t] \in {"k_mtm", "k_pop", "k_add", "k_persist", "m_roll", "m_append"}

\* C5: the operations that mutate the ledger run under mutual exclusion: the
\* monitor's roll or close of a structure never interleaves with a
\* command-initiated close of the same structure.
C5_MutualExclusion ==
    \A tid \in DOMAIN trades :
      ~(\E t \in Threads, u \in Threads :
          /\ t # u
          /\ loc[t].op = "monitor_positions"
          /\ loc[u].op \in {"close_position", "close_all_positions", "reset_day"}
          /\ Mutating(t, tid)
          /\ Mutating(u, tid))

\* C6: the daily P&L equals the sum of the MTM-at-close of the structures
\* closed since the last reset, each counted exactly once, also when
\* close_position runs concurrently on the same id; exactly one CLOSED update
\* is persisted per structure.
C6_DailyPnlCountsEachCloseOnce ==
    /\ daily_pnl = closed_mtm
    /\ \A tid \in DOMAIN trades : trades[tid].closed_updates <= 1

\* the AdjustmentRecords written since the monitor's current adjust_positions
\* call began
RecordsOfCall(t) == SubSeq(adjustments, loc[t].adj_base + 1, Len(adjustments))

\* C7: when the Level 3 trigger holds in a monitor tick, the structure is
\* closed, exactly one AdjustmentRecord of level 3 is written for it, no Level
\* 1 or Level 2 record is written for it in that tick, and no leg is rolled.
C7_Level3ClosesOnly ==
    \A t \in Threads :
      (loc[t].op = "monitor_positions" /\ loc[t].cond3)
      => /\ RecordsOfCall(t) = <<AdjustmentRecord(loc[t].tid, 3)>>
         /\ loc[t].rolls = 0
         /\ pc[t] \notin {"m_roll", "m_append"}
         /\ pc[t] \in {"m_expiry", "m_next"} => loc[t].tid \notin DOMAIN active_positions

\* the monitor has returned from the close that Level 3 called
C7_Witness ==
    \E t \in Threads :
      /\ loc[t].op = "monitor_positions"
      /\ loc[t].cond3
      /\ pc[t] = "m_expiry"
      /\ trades[loc[t].tid].status = "CLOSED"
      /\ trades[loc[t].tid].close_reason = "GAMMA_L3"

\* C8: within one adjust_positions call the levels are tested in the order
\* 3, 2, 1 and only the first whose condition holds acts: at most one
\* AdjustmentRecord and at most one leg roll per call, and a lower level never
\* acts when a higher level's condition holds.
C8_FirstMatchingLevelActs ==
    \A t \in Threads :
      loc[t].op = "monitor_positions"
      => LET acted == IF loc[t].cond3 THEN 3
                      ELSE IF loc[t].cond2 THEN 2
                      ELSE IF loc[t].cond1 THEN 1 ELSE 0
         IN  /\ Len(RecordsOfCall(t)) <= 1
             /\ loc[t].rolls <= 1
             /\ acted = 0 => RecordsOfCall(t) = <<>> /\ loc[t].rolls = 0
             /\ acted # 0 => RecordsOfCall(t) = <<AdjustmentRecord(loc[t].tid, acted)>>
             /\ acted = 3 => loc[t].rolls = 0

\* Level 2 has rolled a leg in a call in which Level 1's condition held too
C8_Witness ==
    \E t \in Threads :
      /\ loc[t].op = "monitor_positions"
      /\ ~loc[t].cond3 /\ loc[t].cond2 /\ loc[t].cond1
      /\ pc[t] = "m_expiry"
      /\ loc[t].rolls = 1

\* the legs of a structure: two non-hedge SELL legs, one CE and one PE, and two
\* hedge BUY legs, one CE and one PE
LegsOf(ps, side, is_hedge, option_type) ==
    {i \in 1..Len(ps) : ps[i].side = side /\ ps[i].is_hedge = is_hedge
                        /\ ps[i].option_type = option_type}

FourLegs(ps) ==
    /\ Len(ps) = 4
    /\ \A option_type \in {"CE", "PE"} :
         /\ Cardinality(LegsOf(ps, "SELL", FALSE, option_type)) = 1
         /\ Cardinality(LegsOf(ps, "BUY", TRUE, option_type)) = 1

EntryPrices(ps, side) ==
    [i \in 1..Len(ps) |-> IF ps[i].side = side THEN ps[i].entry_price ELSE 0]

\* C9: a successful open_position creates a structure of exactly four legs
\* (two SELL legs, one CE and one PE, not hedges; two BUY legs, one CE and one
\* PE, hedges), each of quantity lot size x lots, records as net credit
\* (sum of SELL entry prices - sum of BUY entry prices) x quantity, and raises
\* the day's trade counter by one.
C9_OpenCreatesFourLegs ==
    [][\A t \in Threads :
         (pc[t] = "o_insert" /\ pc'[t] = "idle")
         => LET tid == loc[t].tid
            IN  /\ tid \notin DOMAIN active_positions
                /\ tid \in DOMAIN active_positions'
                /\ FourLegs(active_positions'[tid])
                /\ \A i \in 1..4 :
                     active_positions'[tid][i].quantity = NIFTY_LOT_SIZE * NumLots
                /\ trade_premium'[tid] =
                     (SumSeq(EntryPrices(active_positions'[tid], "SELL"))
                      - SumSeq(EntryPrices(active_positions'[tid], "BUY")))
                     * (NIFTY_LOT_SIZE * NumLots)
                /\ trades_today' = trades_today + 1]_vars

\* a structure just opened, with a positive net credit
C9_Witness ==
    \E tid \in DOMAIN active_positions :
      /\ <<"ENTRY", tid>> \in alerts
      /\ trade_premium[tid] > 0
      /\ entry_time[tid] = now
      /\ trades_today = 1

\* C10: every structure in the ledger has exactly four legs whenever a thread
\* reads it, at creation and after every roll: a structure with fewer than
\* four legs is never observable.
C10_FourLegsObservable ==
    \A t \in Threads :
      (pc[t] = "k_mtm" /\ loc[t].op # "monitor_positions"
       /\ loc[t].tid \in DOMAIN active_positions)
      => FourLegs(active_positions[loc[t].tid])

\* thread t takes the step of open_position that runs check_entry
GateStep(t) == pc[t] = "idle" /\ pc'[t] \in {"idle", "o_build"} /\ OpenCheckEntry(t, MaxTrades)

C12_StopRejectsEntries ==
    [][
        /\ \A t \in Threads :
             (~is_running /\ pc[t] = "idle") => pc'[t] # "o_build"
        /\ (is_running /\ ~is_running')
             => UNCHANGED <<lock, active_positions, entry_spot, entry_time,
                            adjustment_counts, trade_premium, trade_date,
                            trades_today, daily_pnl, trades, adjustments, alerts,
                            pc, loc>>
    ]_vars

\* the engine has been stopped while a structure is open
C12_Witness ==
    /\ ~is_running
    /\ \E tid \in DOMAIN active_positions : trades[tid].status = "OPEN"
    /\ \A t \in Threads : pc[t] = "idle"

\* trade rows persisted for day d
TradesOfDay(d) == {id \in DOMAIN trades : trades[id].trade_date = d}

\* C13: on any one trading day the number of trades persisted for that date
\* never exceeds MAX_TRADES_PER_DAY, whatever the sequence of open_position,
\* close_position and reset_day on that day.
C13_DailyTradeCap ==
    \A id \in DOMAIN trades :
      Cardinality(TradesOfDay(trades[id].trade_date)) <= MAX_TRADES_PER_DAY

TickFails(w) ==
    /\ pc[w] \in {"m_adjust", "m_roll"}
    /\ loc[w].tid \notin DOMAIN active_positions
    /\ pc'[w] = "w_except"

\* C15: within one monitor tick, an error raised while handling one open
\* structure does not keep the remaining open structures of that tick from
\* being refreshed and evaluated: a tick never ends by an error while
\* structures it has not handled yet are open.
C15_FailureIsIsolated ==
    [][
        \A w \in Workers :
          TickFails(w) => loc[w].todo \cap DOMAIN active_positions = {}
    ]_vars

\* C16: an exception raised by a scheduler callback is caught in the wrapper
\* and never propagates: the job's thread goes through the except clause and
\* is free again, so the scheduler goes on running its jobs; a callback that
\* is not set makes the wrapper a no-op.
C16_WrapperCatches ==
    /\ \A t \in PoolThreads : pc[t] # "w_propagated"
    /\ \A t \in PoolThreads : pc[t] = "w_except" => ENABLED SafeCallExcept(t)
    /\ \A err \in ErrorKinds \cup {"none"} : _safe_call("None", err) = "idle"

\* the monitor callback and a cron callback have both raised and been caught
C16_Witness ==
    /\ \E w \in Workers : pc[w] = "w_except"
    /\ pc["cron"] = "w_except"

\* C17: a SELL leg whose current price is below its entry price has a strictly
\* positive P&L, and one whose current price is above its entry price a
\* strictly negative P&L.
C17_ShortLegGainsWhenPriceFalls ==
    \A tid \in DOMAIN active_positions :
      \A i \in 1..Len(active_positions[tid]) :
        LET p == active_positions[tid][i]
        IN  p.side = "SELL" =>
              /\ (p.current_price < p.entry_price => LegPnl(p) > 0)
              /\ (p.current_price > p.entry_price => LegPnl(p) < 0)

\* the fields of a leg that are set at creation
CreationFields(p) ==
    <<p.strike, p.option_type, p.side, p.entry_price, p.quantity, p.is_hedge>>

\* C18: entry price, quantity, strike, option type, side and hedge flag of a
\* leg never change after its creation: a price refresh changes only the
\* current price and the greeks of the legs, a roll removes one leg or appends
\* one and leaves the other legs as they are.
C18_LegFieldsAreImmutable ==
    [][
        \A tid \in DOMAIN active_positions \cap DOMAIN active_positions' :
          LET a == active_positions[tid]
              b == active_positions'[tid]
          IN  /\ Len(b) \in {Len(a) - 1, Len(a), Len(a) + 1}
              /\ Len(b) = Len(a)
                   => \A i \in 1..Len(a) : CreationFields(b[i]) = CreationFields(a[i])
              /\ Len(b) = Len(a) + 1 => SubSeq(b, 1, Len(a)) = a
              /\ Len(b) = Len(a) - 1 => \E i \in 1..Len(a) : b = RemoveAt(a, i)
    ]_vars

\* a refresh has moved the current price of a leg away from its entry price
C18_Witness ==
    \E tid \in DOMAIN active_positions :
      \E i \in 1..Len(active_positions[tid]) :
        /\ active_positions[tid][i].current_price # active_positions[tid][i].entry_price
        /\ \E w \in Workers : pc[w] \in {"m_adjust", "m_expiry"} /\ loc[w].tid = tid

\* the per-trade maps and the ledger that hold an entry for trade id
HoldingMaps(id) ==
    {m \in {"active_positions", "entry_spot", "entry_time", "adjustment_counts",
            "trade_premium"} :
       \/ m = "active_positions" /\ id \in DOMAIN active_positions
       \/ m = "entry_spot" /\ id \in DOMAIN entry_spot
       \/ m = "entry_time" /\ id \in DOMAIN entry_time
       \/ m = "adjustment_counts" /\ id \in DOMAIN adjustment_counts
       \/ m = "trade_premium" /\ id \in DOMAIN trade_premium}

AdjustmentsOf(tbl, id) == {i \in 1..Len(tbl) : tbl[i].trade_id = id}

\* C19: CLOSED is terminal. A closed trade is in neither the ledger nor a
\* per-trade map and never enters one again, its status never returns to OPEN,
\* no AdjustmentRecord is appended for it, and a structure leaves the ledger
\* only through close_position.
C19_ClosedIsTerminal ==
    [][
        /\ \A id \in DOMAIN trades :
             trades[id].status = "CLOSED"
             => /\ HoldingMaps(id) = {}
                /\ trades'[id].status = "CLOSED"
                /\ AdjustmentsOf(adjustments', id) = AdjustmentsOf(adjustments, id)
        /\ \A id \in DOMAIN active_positions \ DOMAIN active_positions' :
             \E t \in Threads : pc[t] = "k_pop" /\ loc[t].tid = id
    ]_vars

\* the defence level adjust_positions finds for the structure of thread w's tick
TickLevel(w) ==
    LET tid == loc[w].tid
    IN  AdjustLevel(Level3Cond(loc[w].spot, entry_spot[tid], entry_time[tid]),
                    Level2Cond(active_positions[tid]),
                    Level1Cond(loc[w].spot, entry_spot[tid], calculate_mtm(tid),
                               trade_premium[tid]))

SummaryRows(tbl, d) == {i \in 1..Len(tbl) : tbl[i].trade_date = d}

\* C21: generate_eod_summary is idempotent. After a call the store holds
\* exactly one summary row for the date, with the values of a single call
\* (total = CLOSED trades of the date, winners = those with realized P&L > 0,
\* net P&L = their sum, max drawdown = their minimum, win rate = winners /
\* closed x 100, or 0 when no trade is closed), and calling it again on the
\* same trades changes nothing.
C21_EodSummaryIdempotent ==
    [][
        (JobEodReport("cron") /\ pc'["cron"] = "idle")
        => LET closed == {id \in DOMAIN trades :
                            trades[id].trade_date = Today /\ trades[id].status = "CLOSED"}
               wins == {id \in closed : trades[id].realized_pnl > 0}
               rows == SummaryRows(daily_summary', Today)
           IN  /\ Cardinality(rows) = 1
               /\ \A i \in rows :
                    /\ daily_summary'[i].total_trades = Cardinality(closed)
                    /\ daily_summary'[i].winning_trades = Cardinality(wins)
                    /\ daily_summary'[i].net_pnl = SumPnl(closed)
                    /\ daily_summary'[i].max_drawdown =
                         IF closed = {} THEN 0
                         ELSE MinOf({trades[id].realized_pnl : id \in closed})
                    /\ daily_summary'[i].win_rate =
                         IF closed = {} THEN 0
                         ELSE (Cardinality(wins) * 100) \div Cardinality(closed)
               /\ upsert_daily_summary(daily_summary', EodSummary) = daily_summary'
    ]_vars

\* the summary of a day with a closed trade has been written over an earlier
\* summary of that day
C21_Witness ==
    /\ Len(daily_summary) = 1
    /\ daily_summary[1].total_trades = 1
    /\ daily_summary[1] = EodSummary
    /\ \E id \in DOMAIN trades : trades[id].status = "CLOSED"

\* C22: the listener acts only on the owner's messages: handling an update
\* whose chat id is not the configured one (or that carries no message) starts
\* no command callback and sends no reply.
C22_OnlyOwnerCommands ==
    [][ (tg'.offset # tg.offset
         /\ ~(tg'.upd.has_message /\ tg'.upd.chat = OwnerChat))
        => (tg'.ran = tg.ran /\ tg'.sent = tg.sent)
    ]_vars

\* a stranger's STOP was handled after the owner's PAUSE, and only the owner's
\* command ran
C22_Witness ==
    /\ tg.offset = 2
    /\ tg.upd.has_message
    /\ tg.upd.chat = "stranger"
    /\ tg.upd.text.word = "STOP"
    /\ tg.ran = <<"on_pause">>
    /\ tg.sent = <<"received PAUSE">>

\* C23: paper trading never sends a real order: no request to an order endpoint
\* of the broker is ever made, by the order methods or by an operation of the
\* engine, and place_order and cancel_order return the simulated result.
C23_NoRealOrder ==
    /\ order_requests = {}
    /\ probe.fn \in {"place_order", "cancel_order"}
         => (probe.result.paper /\ probe.result.s = "ok")
    /\ probe.fn = "cancel_order" => probe.result.id = probe.arg

\* an order was placed through the client after the engine opened a structure,
\* rolled a leg of it and closed it
C23_Witness ==
    /\ probe.fn = "place_order"
    /\ Len(adjustments) > 0
    /\ \E id \in DOMAIN trades : trades[id].status = "CLOSED"
    /\ order_requests = {}

\* C24: the gamma risk score lies in [0, 100], is exactly 50 when the aggregate
\* signed gamma exposure (SELL negative, BUY positive, times quantity times
\* spot) is zero, and never decreases when the exposure grows.
C24_GammaScoreBounded ==
    (probe.fn = "compute_gamma_risk_score" /\ probe.called) =>
      LET exposure == total_gamma_exposure(probe.positions, probe.spot)
      IN  /\ 0 <= probe.result /\ probe.result <= 10000
          /\ exposure = 0 => probe.result = 5000
          /\ \A i \in GammaInputs :
               total_gamma_exposure(i.positions, i.spot) >= exposure
                 => compute_gamma_risk_score(i.positions, i.spot) >= probe.result

\* a list of three legs whose exposure is beyond the clip was scored 0, and the
\* score of a list with short and long legs lies strictly between 0 and 50
C24_Witness ==
    /\ probe.fn = "compute_gamma_risk_score"
    /\ probe.called
    /\ Len(probe.positions) = MaxLegs
    /\ total_gamma_exposure(probe.positions, probe.spot) < -GAMMA_CLIP
    /\ probe.result = 0
    /\ \E i \in GammaInputs :
         /\ \E k \in 1..Len(i.positions) : i.positions[k].side = "BUY"
         /\ compute_gamma_risk_score(i.positions, i.spot) \in 1..4999

\* C25: compute_supertrend gives every bar after the first a direction, BULLISH
\* or BEARISH and never undefined, and the supertrend value of such a bar is its
\* final lower band when the direction is BULLISH and its final upper band when
\* it is BEARISH.
C25_SupertrendDirectionDefined ==
    (probe.fn = "compute_supertrend" /\ probe.called) =>
      \A i \in 2..Len(probe.df) :
        LET row == probe.result[i]
            final == FinalBands(probe.df, probe.period, probe.multiplier, probe.result, i)
        IN  /\ row.st_direction \in {"BULLISH", "BEARISH"}
            /\ row.st_direction = "BULLISH" => row.supertrend = final.lb
            /\ row.st_direction = "BEARISH" => row.supertrend = final.ub

\* a frame whose direction went BULLISH, BEARISH, then stayed BEARISH on a
\* carried upper band
C25_Witness ==
    /\ probe.fn = "compute_supertrend"
    /\ probe.called
    /\ Len(probe.df) = 4
    /\ probe.result[1].st_direction = "NaN"
    /\ probe.result[2].st_direction = "BULLISH"
    /\ probe.result[3].st_direction = "BEARISH"
    /\ probe.result[4].st_direction = "BEARISH"
    /\ probe.result[4].supertrend = probe.result[3].supertrend

\* the distance of the absolute delta of strike k from the target
DeltaDiff(S, k, target, option_type) ==
    Abs(Abs(black_scholes_delta(S, k, option_type)) - target)

\* C26: _find_strike_by_delta returns a strike of the ladder ATM - 1500 to
\* ATM + 1500 in steps of 50, hence a multiple of 50, that minimises the
\* distance of the absolute delta from the target; among strikes at the same
\* distance it returns the lowest.
C26_ClosestDeltaStrike ==
    (probe.fn = "_find_strike_by_delta" /\ probe.called) =>
      LET atm == round_to_strike(probe.spot)
          ladder == {k \in (atm - 1500)..(atm + 1500) : (k - atm) % 50 = 0}
          diff(k) == DeltaDiff(probe.spot, k, probe.target_delta, probe.opt_type)
      IN  /\ probe.result \in ladder
          /\ probe.result % 50 = 0
          /\ \A k \in ladder :
               /\ diff(probe.result) <= diff(k)
               /\ diff(k) = diff(probe.result) => probe.result <= k

\* a search in which several strikes were at the smallest distance and the
\* lowest of them, inside the ladder, was returned
C26_Witness ==
    /\ probe.fn = "_find_strike_by_delta"
    /\ probe.called
    /\ probe.spot % 50 # 0
    /\ probe.result > round_to_strike(probe.spot) - 1500
    /\ probe.result < round_to_strike(probe.spot) + 1500
    /\ DeltaDiff(probe.spot, probe.result + 50, probe.target_delta, probe.opt_type)
         = DeltaDiff(probe.spot, probe.result, probe.target_delta, probe.opt_type)

\* C27: black_scholes_greeks called with T > 0 and a non-positive vol, a zero
\* strike or a non-positive spot returns the all-zero Greek set with the input
\* vol echoed.
C27_ZeroGreeksOnFault ==
    (/\ probe.fn = "black_scholes_greeks"
     /\ probe.called
     /\ probe.T > 0
     /\ (probe.sigma <= 0 \/ probe.K = 0 \/ probe.S <= 0))
    => probe.result = ZeroGreeks(probe.sigma)

\* worker w takes the step that follows a Level 2 decision made while two or
\* more non-hedge SELL legs were over the delta limit
Level2RollStep(w) ==
    /\ pc[w] = "m_roll"
    /\ loc[w].level = 2
    /\ Cardinality(loc[w].breaching) >= 2
    /\ pc'[w] # "m_roll"

\* C28: when Level 3 does not fire and two or more non-hedge SELL legs are over
\* the Level 2 delta limit in a tick, exactly one level-2 record is written and
\* exactly one leg is rolled, the first breaching one in leg order; the other
\* breaching legs are left as they are.
C28_OneRollPerTick ==
    [][ \A w \in Workers :
          LET tid == loc[w].tid
              first == MinOf(loc[w].breaching)
          IN  /\ (pc[w] = "m_adjust" /\ pc'[w] = "m_roll" /\ loc'[w].level = 2)
                   => /\ Len(adjustments') = Len(adjustments) + 1
                      /\ adjustments'[Len(adjustments')].level = 2
                      /\ adjustments'[Len(adjustments')].trade_id = tid
                      /\ loc'[w].idx = MinOf(loc'[w].breaching)
              /\ Level2RollStep(w)
                   => /\ pc'[w] = "m_append"
                      /\ loc'[w].rolls = 1
                      /\ tid \in DOMAIN active_positions
                      /\ tid \in DOMAIN active_positions'
                      /\ Level2Breach(active_positions[tid][first])
                      /\ active_positions'[tid] = RemoveAt(active_positions[tid], first)
                      /\ adjustments' = adjustments
    ]_vars

\* C29: the leg a Level 1 roll takes out of a structure is a non-hedge SELL leg
\* whose strike is at the largest distance from the tick's spot among the
\* non-hedge SELL legs; the nearer short leg and both hedges stay as they are.
C29_Level1RollsFarthestShort ==
    [][ \A w \in Workers :
          LET tid == loc[w].tid
              S == loc[w].spot
          IN  (/\ pc[w] = "m_roll"
               /\ loc[w].level = 1
               /\ pc'[w] = "m_append"
               /\ tid \in DOMAIN active_positions)
              => LET ps == active_positions[tid]
                     shorts == {i \in 1..Len(ps) : ps[i].side = "SELL" /\ ~ps[i].is_hedge}
                 IN  \/ shorts = {} /\ active_positions' = active_positions
                     \/ \E i \in shorts :
                          /\ \A j \in shorts :
                               Abs(ps[i].strike - S) >= Abs(ps[j].strike - S)
                          /\ active_positions'[tid] = RemoveAt(ps, i)
                          /\ \A j \in 1..Len(ps) :
                               (j # i /\ (ps[j].is_hedge
                                          \/ Abs(ps[j].strike - S) < Abs(ps[i].strike - S)))
                                 => \E k \in 1..Len(active_positions'[tid]) :
                                      active_positions'[tid][k] = ps[j]
    ]_vars

\* a Level 1 roll has taken out one short leg: the structure holds the short
\* leg of the other option type and the two hedges, and the new leg is built
C29_Witness ==
    \E w \in Workers :
      /\ pc[w] = "m_append"
      /\ loc[w].level = 1
      /\ loc[w].rolls = 1
      /\ loc[w].tid \in DOMAIN active_positions
      /\ LET ps == active_positions[loc[w].tid]
         IN  /\ Len(ps) = 3
             /\ Len(loc[w].positions) = 1
             /\ Cardinality({i \in 1..3 : ps[i].is_hedge}) = 2
             /\ \E i \in 1..3 :
                  /\ ps[i].side = "SELL"
                  /\ ~ps[i].is_hedge
                  /\ ps[i].option_type # loc[w].positions[1].option_type

\* C30: a roll replaces exactly one leg. Its first step takes one leg out of
\* the structure and builds a SELL leg of the same option type and quantity; its
\* second step appends that leg. The other legs of the structure, the other
\* structures, and the entry spot, entry time and premium stay as they are.
C30_RollReplacesOneLeg ==
    [][ \A w \in Workers :
          LET tid == loc[w].tid
          IN  /\ (/\ pc[w] = "m_roll"
                  /\ pc'[w] = "m_append"
                  /\ active_positions' # active_positions)
                 => LET ps == active_positions[tid]
                        new == loc'[w].positions
                    IN  /\ \E i \in 1..Len(ps) :
                             /\ active_positions' =
                                  [active_positions EXCEPT ![tid] = RemoveAt(ps, i)]
                             /\ Len(new) = 1
                             /\ new[1].side = "SELL"
                             /\ new[1].option_type = ps[i].option_type
                             /\ new[1].quantity = ps[i].quantity
                        /\ UNCHANGED <<entry_spot, entry_time, trade_premium>>
              /\ (/\ pc[w] = "m_append"
                  /\ pc'[w] # "m_append"
                  /\ tid \in DOMAIN active_positions)
                 => /\ active_positions' =
                         [active_positions EXCEPT
                            ![tid] = active_positions[tid] \o loc[w].positions]
                    /\ UNCHANGED <<entry_spot, entry_time, trade_premium>>
    ]_vars

\* a roll is complete: the structure has four legs again, the last of them the
\* new SELL leg, and its entry spot, entry time and premium are in place
C30_Witness ==
    \E w \in Workers :
      /\ pc[w] = "m_expiry"
      /\ loc[w].rolls = 1
      /\ loc[w].tid \in DOMAIN active_positions
      /\ LET ps == active_positions[loc[w].tid]
         IN  /\ Len(ps) = 4
             /\ ps[4].side = "SELL"
             /\ ~ps[4].is_hedge
             /\ ps[4].quantity = ps[1].quantity
      /\ loc[w].tid \in DOMAIN entry_spot \cap DOMAIN entry_time \cap DOMAIN trade_premium
      /\ adjustment_counts[loc[w].tid] = 1

\* the level-1 and level-2 records of structure id
RollRecordsOf(id) ==
    {i \in AdjustmentsOf(adjustments, id) : adjustments[i].level \in {1, 2}}

\* C31: between the calls of the monitor, the adjustment count of every
\* structure in the ledger is the number of level-1 and level-2 records written
\* for it since it was opened.
C31_CountMatchesRecords ==
    \A tid \in DOMAIN active_positions :
      (\A t \in Threads : pc[t] = "idle" \/ loc[t].tid # tid)
        => /\ tid \in DOMAIN adjustment_counts
           /\ adjustment_counts[tid] = Cardinality(RollRecordsOf(tid))

\* a structure that has been rolled twice, with no call at work on it
C31_Witness ==
    \E tid \in DOMAIN active_positions :
      /\ \A t \in Threads : pc[t] = "idle"
      /\ tid \in DOMAIN adjustment_counts
      /\ adjustment_counts[tid] = MaxAdj
      /\ Cardinality(RollRecordsOf(tid)) = MaxAdj

\* C32: the profit-target and stop-loss check applies to the structures opened
\* in expiry mode only: no structure opened as a regular, delta-targeted
\* strangle is closed with reason TARGET_HIT or STOP_LOSS.
C32_TargetsOnlyInExpiryMode ==
    \A id \in DOMAIN trades :
      trades[id].strategy_type = "GAMMA_STRANGLE"
        => trades[id].close_reason \notin {"TARGET_HIT", "STOP_LOSS"}

(* ------------------------------------------------------------------ *)
(* C39                                                                 *)
(* ------------------------------------------------------------------ *)
\* C39: in every reachable state the five per-trade maps have the same key
\* set: a trade id is a key of active_positions exactly when it is a key of
\* entry_spot, of entry_time, of adjustment_counts and of trade_premium.
C39_PerTradeMapsShareKeys ==
    /\ DOMAIN entry_spot = DOMAIN active_positions
    /\ DOMAIN entry_time = DOMAIN active_positions
    /\ DOMAIN adjustment_counts = DOMAIN active_positions
    /\ DOMAIN trade_premium = DOMAIN active_positions

(* ------------------------------------------------------------------ *)
(* C33                                                                 *)
(* ------------------------------------------------------------------ *)
\* thread w decides for its structure, the tick before it (finished before
\* this one started) acted at Level 1 or 2 at the same spot, and the refresh
\* has reproduced the legs that tick left: same quotes, same time to expiry
SameMarketAsLastAdjustment(w) ==
    /\ pc[w] = "m_adjust"
    /\ loc[w].tid \in DOMAIN active_positions
    /\ loc[w].tid \in DOMAIN loc[w].prev
    /\ loc[w].tid \in DOMAIN last_tick.seen
    /\ last_tick.seen[loc[w].tid] = loc[w].prev[loc[w].tid]
    /\ loc[w].prev[loc[w].tid].level \in {1, 2}
    /\ loc[w].prev[loc[w].tid].spot = loc[w].spot
    /\ loc[w].prev[loc[w].tid].positions = active_positions[loc[w].tid]

\* C33: a tick that follows a Level 1 or Level 2 adjustment of a structure
\* and sees the same spot, quotes and time to expiry appends no
\* AdjustmentRecord and starts no roll for the structure.
C33_RepeatedTickDoesNothing ==
    [][\A w \in Threads :
         (SameMarketAsLastAdjustment(w) /\ pc'[w] # pc[w])
           => /\ adjustments' = adjustments
              /\ pc'[w] # "m_roll"]_vars

(* ------------------------------------------------------------------ *)
(* C34                                                                 *)
(* ------------------------------------------------------------------ *)
\* C34: when the gateway gives no spot price, open_position returns to its
\* caller with no row persisted and the ledger, the per-trade maps and the
\* daily counter as they were, and monitor_positions returns with every
\* leg, structure, counter and row as it was and no AdjustmentRecord
\* appended; neither ends in the exception handler.
C34_NoSpotChangesNothing ==
    [][\A t \in Threads :
         /\ OpenNoSpot(t)
              => /\ pc'[t] = "idle"
                 /\ UNCHANGED <<trades, adjustments, active_positions, entry_spot,
                                entry_time, adjustment_counts, trade_premium,
                                trades_today, trade_date, daily_pnl, alerts>>
         /\ MonitorNoSpot(t)
              => /\ pc'[t] = "idle"
                 /\ UNCHANGED <<trades, adjustments, active_positions, entry_spot,
                                entry_time, adjustment_counts, trade_premium,
                                trades_today, trade_date, daily_pnl, alerts, spot,
                                is_running>>]_vars

\* both operations have found no spot price, the tick with a structure in the
\* ledger
C34_Witness ==
    /\ last_tick.no_spot = {"open_position", "monitor_positions"}
    /\ DOMAIN active_positions # {}
    /\ \A t \in Threads : pc[t] = "idle"

(* ------------------------------------------------------------------ *)
(* C35                                                                 *)
(* ------------------------------------------------------------------ *)
\* C35: when the pre-trade risk check fails, open_position returns to its
\* caller, not into the exception handler; no row is persisted, the ledger
\* and the four other per-trade maps are unchanged, the daily trade counter
\* is unchanged and no notification is sent.
C35_RiskRejectChangesNothing ==
    [][\A t \in Threads :
         OpenRiskReject(t)
           => /\ pc'[t] = "idle"
              /\ UNCHANGED <<trades, adjustments, active_positions, entry_spot,
                             entry_time, adjustment_counts, trade_premium,
                             trades_today, alerts>>]_vars

\* an open_position has assigned self.spot and returned without a row: the
\* only return between the two is the failed risk check
C35_Witness ==
    /\ spot \in SpotValues
    /\ DOMAIN trades = {}
    /\ \A t \in Threads : pc[t] = "idle"
    /\ \E q \in QuoteScn :
         EstimatedMaxLoss(BuildPositions(spot, SelectStrikes(spot, "GAMMA_STRANGLE"),
                                         q, Quantity)) > MaxLoss

(* ------------------------------------------------------------------ *)
(* C36                                                                 *)
(* ------------------------------------------------------------------ *)
\* C36: in compute_supertrend, from the third bar on, the final upper band
\* of a bar is not above the final upper band of the bar before it unless
\* that bar closed above its final upper band, and the final lower band is
\* not below the final lower band of the bar before it unless that bar
\* closed below its final lower band; in both trend directions.
C36_FinalBandsAreSticky ==
    (probe.fn = "compute_supertrend" /\ probe.called) =>
      \A i \in 3..Len(probe.df) :
        LET final == FinalBands(probe.df, probe.period, probe.multiplier, probe.result, i)
            before == FinalBands(probe.df, probe.period, probe.multiplier,
                                 probe.result, i - 1)
            prev_close == 8 * probe.df[i - 1].close
        IN  /\ final.ub <= before.ub \/ prev_close > before.ub
            /\ final.lb >= before.lb \/ prev_close < before.lb

(* ------------------------------------------------------------------ *)
(* server.py: _init_strategy and logout                                *)
(* ------------------------------------------------------------------ *)
MaxEngines == 3         \* engines _init_strategy constructs, the first included

\* _init_strategy(token): a new engine, as its constructor leaves it, is put
\* in state.strategy; a scheduler is built, wired to that engine and started
\* only if state.scheduler is None. The engine variables stand for the engine
\* in state.strategy (after logout, for the engine last held); the engine
\* dropped is followed no further, so the step is taken between calls.
_init_strategy ==
    /\ state.built < MaxEngines
    /\ \A t \in Threads : pc[t] = "idle"
    /\ state' = [strategy |-> state.built + 1,
                 scheduler |-> IF state.scheduler = 0 THEN state.built + 1
                               ELSE state.scheduler,
                 built |-> state.built + 1]
    /\ is_running' = FALSE
    /\ lock' = Free
    /\ active_positions' = EmptyMap
    /\ entry_spot' = EmptyMap
    /\ entry_time' = EmptyMap
    /\ adjustment_counts' = EmptyMap
    /\ trade_premium' = EmptyMap
    /\ spot' = 0
    /\ supertrend_dir' = "UNKNOWN"
    /\ trade_date' = Today
    /\ trades_today' = 0
    /\ daily_pnl' = 0
    /\ closed_mtm' = 0
    /\ UNCHANGED <<store, alerts, now, pc, loc, daily_summary, tg, order_requests,
                   probe, last_tick>>

\* logout: state.strategy = None; state.scheduler is left as it is
logout ==
    /\ state.strategy # 0
    /\ state' = [state EXCEPT !.strategy = 0]
    /\ UNCHANGED <<engine, store, alerts, now, pc, loc, closed_mtm, daily_summary,
                   tg, order_requests, probe, last_tick>>

\* logins and logouts beside the operations on the engine in state.strategy
\* (the routes and Telegram commands test state.strategy first) and the
\* monitor job, which is followed while its engine is the one in state.strategy
NextServer ==
    \/ _init_strategy
    \/ logout
    \/ /\ state.strategy # 0
       /\ \/ start
          \/ stop
          \/ Command("cmd1", MaxTrades)
          \/ close_position("cmd1")
    \/ /\ state.scheduler = state.strategy
       /\ \E w \in Workers : MonitorJob(w) \/ close_position(w)

SpecServer == Init /\ [][NextServer]_vars

(* ------------------------------------------------------------------ *)
(* C37, C38                                                            *)
(* ------------------------------------------------------------------ *)
\* C37: after any number of calls of _init_strategy and logout one scheduler
\* is running, and the engine its five callbacks are bound to is the engine
\* held in state.strategy.
C37_SchedulerDrivesCurrentEngine ==
    /\ state.scheduler # 0
    /\ state.strategy # 0 => state.scheduler = state.strategy

\* C38: whenever no call is running, the trades persisted with status OPEN
\* are the trade ids in the ledger of the engine in state.strategy, also
\* after the engine has been constructed anew.
C38_OpenRowsMirrorLedger ==
    ((\A t \in Threads : pc[t] = "idle") /\ state.strategy # 0)
      => get_open_trades = DOMAIN active_positions

====
